---- MODULE Spec2Model ----
(***************************************************************************)
(* A model of GeoPattern (lib/index.js, lib/pattern.js): generate(),       *)
(* the Pattern constructor, its background and generator selection, the    *)
(* sixteen geo* generators and the export methods.                         *)
(*                                                                         *)
(* Numbers.  JavaScript numbers are modelled exactly as                    *)
(*      (a + b*sqrt(3)) / d      written  <<a, b, d>>,  d > 0,             *)
(* in lowest terms; <<0, 0, 0>> is NaN.  Every quantity the generators     *)
(* compute is of that form.                                                *)
(*                                                                         *)
(* Strings.  A digest is a sequence of characters; a hexadecimal digit is  *)
(* written as its value 0..15 and any other character as its ASCII code    *)
(* (32 and above).  A generator name is written <<first character, rest>> so that  *)
(* slice(0, 1) and slice(1) are its two components; "" is <<>>.            *)
(***************************************************************************)
EXTENDS Integers, Sequences, FiniteSets, TLC

VARIABLES history, ret

vars == <<history, ret>>

---------------------------------------------------------------------------
(* Arithmetic *)

Abs(i) == IF i < 0 THEN -i ELSE i

RECURSIVE GCD(_, _)
GCD(i, j) == IF j = 0 THEN i ELSE GCD(j, i % j)

LCM(i, j) == (i \div GCD(i, j)) * j

NaN == <<0, 0, 0>>

IsNaN(x) == x[3] = 0

\* x with its three components divided by g, a common divisor carrying the
\* sign of the denominator
Reduce(x, g) == <<x[1] \div g, x[2] \div g, x[3] \div g>>

Norm(x) ==
    IF x[3] = 0 THEN NaN
    ELSE Reduce(x, (IF x[3] < 0 THEN -1 ELSE 1)
                   * GCD(GCD(Abs(x[1]), Abs(x[2])), Abs(x[3])))

N(i) == <<i, 0, 1>>

Q(n, d) == Norm(<<n, 0, d>>)

Sqrt3 == <<0, 1, 1>>

\* x + y over the common denominator l
AddOver(x, y, l) ==
    Norm(<<x[1] * (l \div x[3]) + y[1] * (l \div y[3]),
           x[2] * (l \div x[3]) + y[2] * (l \div y[3]), l>>)

Add(x, y) ==
    IF IsNaN(x) \/ IsNaN(y) THEN NaN ELSE AddOver(x, y, LCM(x[3], y[3]))

Neg(x) == <<-x[1], -x[2], x[3]>>

Sub(x, y) == Add(x, Neg(y))

Mul(x, y) ==
    IF IsNaN(x) \/ IsNaN(y) THEN NaN
    ELSE Norm(<<x[1] * y[1] + 3 * x[2] * y[2],
                x[1] * y[2] + x[2] * y[1],
                x[3] * y[3]>>)

\* x / y for a rational y; y = 0 does not occur in the program
Div(x, y) ==
    IF IsNaN(x) \/ IsNaN(y) THEN NaN
    ELSE Norm(<<x[1] * y[3], x[2] * y[3], x[3] * y[1]>>)

IsRational(x) == x[3] # 0 /\ x[2] = 0

\* order of two rationals
Less(x, y) == x[1] * y[3] < y[1] * x[3]

Leq(x, y) == x[1] * y[3] <= y[1] * x[3]

\* Math.floor of a rational
Floor(x) == IF IsNaN(x) THEN NaN ELSE N(x[1] \div x[3])

\* Math.round of a rational: floor(x + 1/2)
Round(x) == Floor(Add(x, Q(1, 2)))

\* x % m for rationals x >= 0, m > 0
Mod(x, m) == IF IsNaN(x) THEN NaN ELSE Sub(x, Mul(m, Floor(Div(x, m))))

Min(x, y) == IF IsNaN(x) \/ IsNaN(y) THEN NaN ELSE IF Less(y, x) THEN y ELSE x

Max(x, y) == IF IsNaN(x) \/ IsNaN(y) THEN NaN ELSE IF Less(x, y) THEN y ELSE x

\* sign of a + b*sqrt(3): -1, 0 or 1
SignOf(a, b) ==
    IF a >= 0 /\ b >= 0 THEN (IF a = 0 /\ b = 0 THEN 0 ELSE 1)
    ELSE IF a <= 0 /\ b <= 0 THEN -1
    ELSE IF a > 0 THEN (IF a * a > 3 * b * b THEN 1 ELSE -1)
    ELSE (IF 3 * b * b > a * a THEN 1 ELSE -1)

Sign(x) == SignOf(x[1], x[2])

Positive(x) == ~IsNaN(x) /\ Sign(x) = 1

---------------------------------------------------------------------------
(* Constants of lib/pattern.js *)

Str(h, t) == <<h, t>>

EmptyStr == <<>>

DEFAULTS == [baseColor |-> <<9, 3, 3, 12, 3, 12>>]

PATTERNS ==
    << Str("o", "ctogons"), Str("o", "verlappingCircles"), Str("p", "lusSigns"),
       Str("x", "es"), Str("s", "ineWaves"), Str("h", "exagons"),
       Str("o", "verlappingRings"), Str("p", "laid"), Str("t", "riangles"),
       Str("s", "quares"), Str("c", "oncentricCircles"), Str("d", "iamonds"),
       Str("t", "essellation"), Str("n", "estedSquares"), Str("m", "osaicSquares"),
       Str("c", "hevrons") >>

FILL_COLOR_DARK == "#222"

FILL_COLOR_LIGHT == "#ddd"

STROKE_COLOR == "#000"

STROKE_OPACITY == Q(2, 100)

OPACITY_MIN == Q(2, 100)

OPACITY_MAX == Q(15, 100)

---------------------------------------------------------------------------
(* Helpers of lib/pattern.js *)

HexDigit(c) == c \in 0..15

\* ASCII codes of the other characters parseInt distinguishes
SpaceChar == 32

PlusChar == 43

MinusChar == 45

UpperXChar == 88

LowerXChar == 120

UpperNChar == 78

\* String.prototype.substr(index, len) for index >= 0
Substr(s, index, len) ==
    IF index >= Len(s) THEN <<>>
    ELSE SubSeq(s, index + 1, IF index + len > Len(s) THEN Len(s) ELSE index + len)

RECURSIVE SkipSpace(_)
SkipSpace(s) ==
    IF s # <<>> /\ Head(s) = SpaceChar THEN SkipSpace(Tail(s)) ELSE s

RECURSIVE HexPrefix(_, _, _)
\* value of the longest run of hexadecimal digits s starts with; n counts them
HexPrefix(s, acc, n) ==
    IF s # <<>> /\ HexDigit(Head(s))
    THEN HexPrefix(Tail(s), 16 * acc + Head(s), n + 1)
    ELSE <<acc, n>>

\* parseInt(s, 16): leading white space, a sign and a 0x prefix are skipped,
\* then the longest run of hexadecimal digits is read; NaN when it is empty
StripSign(t) ==
    IF t # <<>> /\ Head(t) \in {MinusChar, PlusChar} THEN Tail(t) ELSE t

StripRadixPrefix(u) ==
    IF Len(u) >= 2 /\ u[1] = 0 /\ u[2] \in {LowerXChar, UpperXChar}
    THEN SubSeq(u, 3, Len(u)) ELSE u

\* r = <<value, number of digits>> of the digits read, sg the sign
Parsed(sg, r) == IF r[2] = 0 THEN NaN ELSE N(sg * r[1])

ParseTrimmed(t) ==
    Parsed(IF t # <<>> /\ Head(t) = MinusChar THEN -1 ELSE 1,
           HexPrefix(StripRadixPrefix(StripSign(t)), 0, 0))

ParseInt16(s) == ParseTrimmed(SkipSpace(s))

hexValLen(hash, index, len) ==
    ParseInt16(Substr(hash, index, IF len = 0 THEN 1 ELSE len))

hexVal(hash, index) == hexValLen(hash, index, 1)

\* vMin, vMax are integer literals at every call; dMin, dMax are numbers
map(value, vMin, vMax, dMin, dMax) ==
    LET vRange == N(vMax - vMin)
        dRange == Sub(dMax, dMin)
    IN  Add(Div(Mul(Sub(value, N(vMin)), dRange), vRange), dMin)

\* val % 2 === 0 (false for NaN)
IsEven(val) == IsRational(val) /\ val[3] = 1 /\ val[1] % 2 = 0

\* fillColor with the two tones exchanged
fillColorExchanged(val) == IF IsEven(val) THEN FILL_COLOR_DARK ELSE FILL_COLOR_LIGHT

fillColor(val) == IF IsEven(val) THEN FILL_COLOR_LIGHT ELSE FILL_COLOR_DARK

fillOpacity(val) == map(val, 0, 15, OPACITY_MIN, OPACITY_MAX)

Half(x) == Div(x, N(2))

Times(k, x) == Mul(N(k), x)

\* Each build*Shape returns the list of numbers that the source joins with ','
buildHexagonShape(sideLength) ==
    LET c == sideLength
        a == Half(c)
        b == Mul(Half(Sqrt3), c)
        Z == N(0)
    IN  << Z, b, a, Z, Add(a, c), Z, Times(2, c), b, Add(a, c), Times(2, b),
           a, Times(2, b), Z, b >>

buildChevronShape(width, height) ==
    LET e == Mul(height, Q(66, 100))
        w2 == Half(width)
        Z == N(0)
    IN  << << Z, Z, w2, Sub(height, e), w2, height, Z, e, Z, Z >>,
           << w2, Sub(height, e), width, Z, width, e, w2, height, w2, Sub(height, e) >> >>

buildPlusShape(squareSize) ==
    << << squareSize, N(0), squareSize, Times(3, squareSize) >>,
       << N(0), squareSize, Times(3, squareSize), squareSize >> >>

buildOctogonShape(squareSize) ==
    LET s == squareSize
        c == Mul(s, Q(33, 100))
        Z == N(0)
    IN  << c, Z, Sub(s, c), Z, s, c, s, Sub(s, c), Sub(s, c), s, c, s,
           Z, Sub(s, c), Z, c, c, Z >>

buildTriangleShape(sideLength, height) ==
    LET halfWidth == Half(sideLength)
    IN  << halfWidth, N(0), sideLength, height, N(0), height, halfWidth, N(0) >>

buildDiamondShape(width, height) ==
    << Half(width), N(0), width, Half(height), Half(width), height, N(0), Half(height) >>

buildRightTriangleShape(sideLength) ==
    << N(0), N(0), sideLength, sideLength, N(0), sideLength, N(0), N(0) >>

buildRotatedTriangleShape(sideLength, triangleWidth) ==
    LET halfHeight == Half(sideLength)
    IN  << N(0), N(0), triangleWidth, halfHeight, N(0), sideLength, N(0), N(0) >>

---------------------------------------------------------------------------
(* The drawing surface (lib/svg.js): it accumulates elements in call order *)
(* and holds the declared width and height.                                *)
(*                                                                         *)
(* An element is [tag, attrs, styles, transform, children, at].  transform *)
(* lists the <<name, arguments>> pairs in the order the source writes      *)
(* them.  at = <<i, branch>> is not part of the image: it records the loop *)
(* index and the branch of the generator that emitted the element.         *)

Unset == <<"unset">>

Pct100 == <<100, "%">>

Px(x) == <<x, "px">>

NewSVG == [width |-> Unset, height |-> Unset, els |-> <<>>, calls |-> <<>>]

El(tag, attrs, styles) ==
    [tag |-> tag, attrs |-> attrs, styles |-> styles, transform |-> <<>>,
     children |-> <<>>, at |-> <<>>]

NoStyles == [none |-> TRUE]

rect(x, y, w, h, styles) == El("rect", <<x, y, w, h>>, styles)

circle(cx, cy, r, styles) == El("circle", <<cx, cy, r>>, styles)

polyline(points, styles) == El("polyline", <<points>>, styles)

path(d, styles) == El("path", <<d>>, styles)

\* svg.group(styles).transform(t).<children>.end()
group(styles, t, children) ==
    [El("g", <<>>, styles) EXCEPT !.transform = t, !.children = children]

\* rect() called with a list of [x, y, w, h] lists draws one rect per list
rects(shape) == [k \in 1..Len(shape) |->
                    rect(shape[k][1], shape[k][2], shape[k][3], shape[k][4], NoStyles)]

\* polyline() called with a list of point strings draws one polyline per string
polylines(shape) == [k \in 1..Len(shape) |-> polyline(shape[k], NoStyles)]

transform(el, t) == [el EXCEPT !.transform = t]

translate(x, y) == <<"translate", <<x, y>>>>

rotate(a, x, y) == <<"rotate", <<a, x, y>>>>

scale(x, y) == <<"scale", <<N(x), N(y)>>>>

At(el, i, branch) == [el EXCEPT !.at = <<i, branch>>]

\* A generator is the sequence of calls it makes on the surface
add(el) == [op |-> "add", arg |-> el]

setWidth(w) == [op |-> "setWidth", arg |-> w]

setHeight(h) == [op |-> "setHeight", arg |-> h]

\* the note that hexVal(hash, index) was evaluated; it is no call on the surface
read(index) == [op |-> "hexVal", arg |-> <<index, 1>>]

call(svg, c) ==
    LET s == [svg EXCEPT !.calls = Append(@, c.op)]
    IN  CASE c.op = "add"       -> [s EXCEPT !.els = Append(@, c.arg)]
          [] c.op = "setWidth"  -> [s EXCEPT !.width = c.arg]
          [] c.op = "setHeight" -> [s EXCEPT !.height = c.arg]

IsAdd(c) == c.op = "add"

IsSetWidth(c) == c.op = "setWidth"

IsSetHeight(c) == c.op = "setHeight"

IsRead(c) == c.op = "hexVal"

IsSurfaceCall(c) == c.op # "hexVal"

\* the calls on the surface among cs
SurfaceCalls(cs) == SelectSeq(cs, IsSurfaceCall)

\* the <<index, length>> of the digest reads among cs
ReadsOf(cs) == [k \in 1..Len(SelectSeq(cs, IsRead)) |-> SelectSeq(cs, IsRead)[k].arg]

\* the surface after the calls cs, made in order
run(svg, cs) ==
    LET adds == SelectSeq(cs, IsAdd)
        ws   == SelectSeq(cs, IsSetWidth)
        hs   == SelectSeq(cs, IsSetHeight)
    IN  [width  |-> IF ws = <<>> THEN svg.width ELSE ws[Len(ws)].arg,
         height |-> IF hs = <<>> THEN svg.height ELSE hs[Len(hs)].arg,
         els    |-> svg.els \o [k \in 1..Len(adds) |-> adds[k].arg],
         calls  |-> svg.calls
                    \o [k \in 1..Len(SurfaceCalls(cs)) |-> SurfaceCalls(cs)[k].op]]

RECURSIVE Flatten(_, _, _)
\* f[from] \o f[from + 1] \o ... \o f[to - 1]
Flatten(f, from, to) ==
    IF from >= to THEN <<>>
    ELSE IF to = from + 1 THEN f[from]
    ELSE LET mid == (from + to) \div 2
         IN  Flatten(f, from, mid) \o Flatten(f, mid, to)

When(cond, s) == IF cond THEN s ELSE <<>>

---------------------------------------------------------------------------
(* The sixteen generators *)

geoHexagons(hash) ==
    LET scale0     == hexVal(hash, 0)
        sideLength == map(scale0, 0, 15, N(8), N(60))
        hexHeight  == Mul(sideLength, Sqrt3)
        hexWidth   == Times(2, sideLength)
        hex        == buildHexagonShape(sideLength)
        tx(x)      == Sub(Mul(Times(x, sideLength), Q(3, 2)), Half(hexWidth))
        cell(i) ==
            LET x == i % 6
                y == i \div 6
                val == hexVal(hash, i)
                dy == IF x % 2 = 0 THEN Times(y, hexHeight)
                      ELSE Add(Times(y, hexHeight), Half(hexHeight))
                dy2 == IF x % 2 = 0 THEN Times(6, hexHeight)
                       ELSE Add(Times(6, hexHeight), Half(hexHeight))
                styles == [fill |-> fillColor(val), fillOpacity |-> fillOpacity(val),
                           stroke |-> STROKE_COLOR, strokeOpacity |-> STROKE_OPACITY]
                p(t, b) == add(At(transform(polyline(hex, styles), <<t>>), i, b))
            IN  << read(i), p(translate(tx(x), Sub(dy, Half(hexHeight))), "cell") >>
                \o When(x = 0, << p(translate(tx(6), Sub(dy, Half(hexHeight))), "right") >>)
                \o When(y = 0, << p(translate(tx(x), Sub(dy2, Half(hexHeight))), "bottom") >>)
                \o When(x = 0 /\ y = 0,
                        << p(translate(tx(6), Add(Times(5, hexHeight), Half(hexHeight))),
                             "corner") >>)
    IN  << read(0), setWidth(Add(Times(3, hexWidth), Times(3, sideLength))),
           setHeight(Times(6, hexHeight)) >>
        \o Flatten([i \in 0..35 |-> cell(i)], 0, 36)

geoSineWaves(hash) ==
    LET period    == Floor(map(hexVal(hash, 0), 0, 15, N(100), N(400)))
        amplitude == Floor(map(hexVal(hash, 1), 0, 15, N(30), N(100)))
        waveWidth == Floor(map(hexVal(hash, 2), 0, 15, N(3), N(30)))
        wave(i) ==
            LET val == hexVal(hash, i)
                xOffset == Mul(Div(period, N(4)), Q(7, 10))
                styles == [fill |-> "none", stroke |-> fillColor(val),
                           opacity |-> fillOpacity(val), strokeWidth |-> Px(waveWidth)]
                str == << "M0 ", amplitude, " C ", xOffset, " 0, ",
                          Sub(Half(period), xOffset), " 0, ", Half(period), " ", amplitude,
                          " S ", Sub(period, xOffset), " ", Times(2, amplitude), ", ",
                          period, " ", amplitude, " S ",
                          Sub(Mul(period, Q(3, 2)), xOffset), " 0, ",
                          Mul(period, Q(3, 2)), ", ", amplitude >>
                ty == Sub(Times(i, waveWidth), Mul(amplitude, Q(3, 2)))
                p(t, b) == add(At(transform(path(str, styles), <<t>>), i, b))
            IN  << read(i), p(translate(Div(Neg(period), N(4)), ty), "cell"),
                   p(translate(Div(Neg(period), N(4)), Add(ty, Times(36, waveWidth))),
                     "bottom") >>
    IN  << read(0), read(1), read(2), setWidth(period), setHeight(Times(36, waveWidth)) >>
        \o Flatten([i \in 0..35 |-> wave(i)], 0, 36)

geoChevrons(hash) ==
    LET chevronWidth  == map(hexVal(hash, 0), 0, 15, N(30), N(80))
        chevronHeight == map(hexVal(hash, 0), 0, 15, N(30), N(80))
        chevron       == buildChevronShape(chevronWidth, chevronHeight)
        cell(i) ==
            LET x == i % 6
                y == i \div 6
                val == hexVal(hash, i)
                styles == [stroke |-> STROKE_COLOR, strokeOpacity |-> STROKE_OPACITY,
                           fill |-> fillColor(val), fillOpacity |-> fillOpacity(val),
                           strokeWidth |-> N(1)]
                g(t, b) == add(At(group(styles, <<t>>, polylines(chevron)), i, b))
            IN  << read(i), g(translate(Times(x, chevronWidth),
                               Sub(Mul(Times(y, chevronHeight), Q(66, 100)),
                                   Half(chevronHeight))), "cell") >>
                \o When(y = 0,
                        << g(translate(Times(x, chevronWidth),
                                       Sub(Mul(Times(6, chevronHeight), Q(66, 100)),
                                           Half(chevronHeight))), "bottom") >>)
    IN  << read(0), read(0), setWidth(Times(6, chevronWidth)),
           setHeight(Mul(Times(6, chevronHeight), Q(66, 100))) >>
        \o Flatten([i \in 0..35 |-> cell(i)], 0, 36)

geoPlusSigns(hash) ==
    LET squareSize == map(hexVal(hash, 0), 0, 15, N(10), N(25))
        plusSize   == Times(3, squareSize)
        plusShape  == buildPlusShape(squareSize)
        cell(i) ==
            LET x == i % 6
                y == i \div 6
                val == hexVal(hash, i)
                dx == IF y % 2 = 0 THEN 0 ELSE 1
                styles == [fill |-> fillColor(val), stroke |-> STROKE_COLOR,
                           strokeOpacity |-> STROKE_OPACITY,
                           fillOpacity |-> fillOpacity(val)]
                tx(k) == Sub(Add(Sub(Times(k, plusSize), Times(x, squareSize)),
                                 Times(dx, squareSize)), squareSize)
                ty(k) == Sub(Sub(Times(k, plusSize), Times(y, squareSize)),
                             Half(plusSize))
                g(t, b) == add(At(group(styles, <<t>>, rects(plusShape)), i, b))
            IN  << read(i), g(translate(tx(x), ty(y)), "cell") >>
                \o When(x = 0, << g(translate(tx(4), ty(y)), "right") >>)
                \o When(y = 0, << g(translate(tx(x), ty(4)), "bottom") >>)
                \o When(x = 0 /\ y = 0, << g(translate(tx(4), ty(4)), "corner") >>)
    IN  << read(0), setWidth(Times(12, squareSize)), setHeight(Times(12, squareSize)) >>
        \o Flatten([i \in 0..35 |-> cell(i)], 0, 36)

geoXes(hash) ==
    LET squareSize == map(hexVal(hash, 0), 0, 15, N(10), N(25))
        xShape     == buildPlusShape(squareSize)
        xSize      == Mul(Times(3, squareSize), Q(943, 1000))
        cell(i) ==
            LET x == i % 6
                y == i \div 6
                val == hexVal(hash, i)
                dy == IF x % 2 = 0
                      THEN Sub(Times(y, xSize), Mul(xSize, Q(1, 2)))
                      ELSE Add(Sub(Times(y, xSize), Mul(xSize, Q(1, 2))),
                               Div(xSize, N(4)))
                \* dy as reassigned in the y === 0 branch
                dy0 == IF x % 2 = 0
                       THEN Sub(Times(6, xSize), Half(xSize))
                       ELSE Add(Sub(Times(6, xSize), Half(xSize)), Div(xSize, N(4)))
                styles == [fill |-> fillColor(val), opacity |-> fillOpacity(val)]
                tx(k) == Sub(Half(Times(k, xSize)), Half(xSize))
                rot == rotate(N(45), Half(xSize), Half(xSize))
                g(t, b) == add(At(group(styles, <<t, rot>>, rects(xShape)), i, b))
            IN  << read(i), g(translate(tx(x), Sub(dy, Half(Times(y, xSize)))), "cell") >>
                \o When(x = 0,
                        << g(translate(tx(6), Sub(dy, Half(Times(y, xSize)))), "right") >>)
                \o When(y = 0,
                        << g(translate(tx(x), Sub(dy0, Half(Times(6, xSize)))), "bottom") >>)
                \o When(y = 5,
                        << g(translate(tx(x), Sub(dy, Half(Times(11, xSize)))), "top") >>)
                \o When(x = 0 /\ y = 0,
                        << g(translate(tx(6), Sub(dy0, Half(Times(6, xSize)))), "corner") >>)
    IN  << read(0), setWidth(Times(3, xSize)), setHeight(Times(3, xSize)) >>
        \o Flatten([i \in 0..35 |-> cell(i)], 0, 36)

\* geoOverlappingCircles with the right-hand copies one column short
geoOverlappingCirclesShortColumn(hash) ==
    LET scale0   == hexVal(hash, 0)
        diameter == map(scale0, 0, 15, N(25), N(200))
        radius   == Half(diameter)
        cell(i) ==
            LET x == i % 6
                y == i \div 6
                val == hexVal(hash, i)
                styles == [fill |-> fillColor(val), opacity |-> fillOpacity(val)]
                c(cx, cy, b) == add(At(circle(Times(cx, radius), Times(cy, radius),
                                              radius, styles), i, b))
            IN  << read(i), c(x, y, "cell") >>
                \o When(x = 0, << c(5, y, "right") >>)
                \o When(y = 0, << c(x, 6, "bottom") >>)
                \o When(x = 0 /\ y = 0, << c(6, 6, "corner") >>)
    IN  << read(0), setWidth(Times(6, radius)), setHeight(Times(6, radius)) >>
        \o Flatten([i \in 0..35 |-> cell(i)], 0, 36)

geoOverlappingCircles(hash) ==
    LET scale0   == hexVal(hash, 0)
        diameter == map(scale0, 0, 15, N(25), N(200))
        radius   == Half(diameter)
        cell(i) ==
            LET x == i % 6
                y == i \div 6
                val == hexVal(hash, i)
                styles == [fill |-> fillColor(val), opacity |-> fillOpacity(val)]
                c(cx, cy, b) == add(At(circle(Times(cx, radius), Times(cy, radius),
                                              radius, styles), i, b))
            IN  << read(i), c(x, y, "cell") >>
                \o When(x = 0, << c(6, y, "right") >>)
                \o When(y = 0, << c(x, 6, "bottom") >>)
                \o When(x = 0 /\ y = 0, << c(6, 6, "corner") >>)
    IN  << read(0), setWidth(Times(6, radius)), setHeight(Times(6, radius)) >>
        \o Flatten([i \in 0..35 |-> cell(i)], 0, 36)

\* geoOctogons declaring the canvas after its last shape
geoOctogonsSizedLast(hash) ==
    LET squareSize == map(hexVal(hash, 0), 0, 15, N(10), N(60))
        tile       == buildOctogonShape(squareSize)
        cell(i) ==
            LET x == i % 6
                y == i \div 6
                val == hexVal(hash, i)
                styles == [fill |-> fillColor(val), fillOpacity |-> fillOpacity(val),
                           stroke |-> STROKE_COLOR, strokeOpacity |-> STROKE_OPACITY]
            IN  << read(i), add(At(transform(polyline(tile, styles),
                                    << translate(Times(x, squareSize),
                                                 Times(y, squareSize)) >>),
                          i, "cell")) >>
    IN  << read(0) >>
        \o Flatten([i \in 0..35 |-> cell(i)], 0, 36)
        \o << setWidth(Times(6, squareSize)), setHeight(Times(6, squareSize)) >>

geoOctogons(hash) ==
    LET squareSize == map(hexVal(hash, 0), 0, 15, N(10), N(60))
        tile       == buildOctogonShape(squareSize)
        cell(i) ==
            LET x == i % 6
                y == i \div 6
                val == hexVal(hash, i)
                styles == [fill |-> fillColor(val), fillOpacity |-> fillOpacity(val),
                           stroke |-> STROKE_COLOR, strokeOpacity |-> STROKE_OPACITY]
            IN  << read(i), add(At(transform(polyline(tile, styles),
                                    << translate(Times(x, squareSize),
                                                 Times(y, squareSize)) >>),
                          i, "cell")) >>
    IN  << read(0), setWidth(Times(6, squareSize)), setHeight(Times(6, squareSize)) >>
        \o Flatten([i \in 0..35 |-> cell(i)], 0, 36)

\* geoSquares with the loops over x and y exchanged
geoSquaresColumnMajor(hash) ==
    LET squareSize == map(hexVal(hash, 0), 0, 15, N(10), N(60))
        cell(i) ==
            LET x == i \div 6
                y == i % 6
                val == hexVal(hash, i)
                styles == [fill |-> fillColor(val), fillOpacity |-> fillOpacity(val),
                           stroke |-> STROKE_COLOR, strokeOpacity |-> STROKE_OPACITY]
            IN  << read(i), add(At(rect(Times(x, squareSize), Times(y, squareSize),
                               squareSize, squareSize, styles), i, "cell")) >>
    IN  << read(0), setWidth(Times(6, squareSize)), setHeight(Times(6, squareSize)) >>
        \o Flatten([i \in 0..35 |-> cell(i)], 0, 36)

geoSquares(hash) ==
    LET squareSize == map(hexVal(hash, 0), 0, 15, N(10), N(60))
        cell(i) ==
            LET x == i % 6
                y == i \div 6
                val == hexVal(hash, i)
                styles == [fill |-> fillColor(val), fillOpacity |-> fillOpacity(val),
                           stroke |-> STROKE_COLOR, strokeOpacity |-> STROKE_OPACITY]
            IN  << read(i), add(At(rect(Times(x, squareSize), Times(y, squareSize),
                               squareSize, squareSize, styles), i, "cell")) >>
    IN  << read(0), setWidth(Times(6, squareSize)), setHeight(Times(6, squareSize)) >>
        \o Flatten([i \in 0..35 |-> cell(i)], 0, 36)

geoConcentricCircles(hash) ==
    LET scale0      == hexVal(hash, 0)
        ringSize    == map(scale0, 0, 15, N(10), N(60))
        strokeWidth == Div(ringSize, N(5))
        cell(i) ==
            LET x == i % 6
                y == i \div 6
                val == hexVal(hash, i)
                val2 == hexVal(hash, 39 - i)
                cx == Add(Add(Times(x, ringSize), Times(x, strokeWidth)),
                          Half(Add(ringSize, strokeWidth)))
                cy == Add(Add(Times(y, ringSize), Times(y, strokeWidth)),
                          Half(Add(ringSize, strokeWidth)))
            IN  << read(i), add(At(circle(cx, cy, Half(ringSize),
                                 [fill |-> "none", stroke |-> fillColor(val),
                                  opacity |-> fillOpacity(val),
                                  strokeWidth |-> Px(strokeWidth)]), i, "cell")),
                   read(39 - i),
                   add(At(circle(cx, cy, Div(ringSize, N(4)),
                                 [fill |-> fillColor(val2),
                                  fillOpacity |-> fillOpacity(val2)]), i, "inner")) >>
    IN  << read(0), setWidth(Times(6, Add(ringSize, strokeWidth))),
           setHeight(Times(6, Add(ringSize, strokeWidth))) >>
        \o Flatten([i \in 0..35 |-> cell(i)], 0, 36)

geoOverlappingRings(hash) ==
    LET scale0      == hexVal(hash, 0)
        ringSize    == map(scale0, 0, 15, N(10), N(60))
        strokeWidth == Div(ringSize, N(4))
        cell(i) ==
            LET x == i % 6
                y == i \div 6
                val == hexVal(hash, i)
                styles == [fill |-> "none", stroke |-> fillColor(val),
                           opacity |-> fillOpacity(val),
                           strokeWidth |-> Px(strokeWidth)]
                c(cx, cy, b) == add(At(circle(Times(cx, ringSize), Times(cy, ringSize),
                                              Sub(ringSize, Half(strokeWidth)), styles),
                                       i, b))
            IN  << read(i), c(x, y, "cell") >>
                \o When(x = 0, << c(6, y, "right") >>)
                \o When(y = 0, << c(x, 6, "bottom") >>)
                \o When(x = 0 /\ y = 0, << c(6, 6, "corner") >>)
    IN  << read(0), setWidth(Times(6, ringSize)), setHeight(Times(6, ringSize)) >>
        \o Flatten([i \in 0..35 |-> cell(i)], 0, 36)

geoTriangles(hash) ==
    LET scale0         == hexVal(hash, 0)
        sideLength     == map(scale0, 0, 15, N(15), N(80))
        triangleHeight == Mul(Half(sideLength), Sqrt3)
        triangle       == buildTriangleShape(sideLength, triangleHeight)
        cell(i) ==
            LET x == i % 6
                y == i \div 6
                val == hexVal(hash, i)
                styles == [fill |-> fillColor(val), fillOpacity |-> fillOpacity(val),
                           stroke |-> STROKE_COLOR, strokeOpacity |-> STROKE_OPACITY]
                rotation == IF y % 2 = 0
                            THEN (IF x % 2 = 0 THEN 180 ELSE 0)
                            ELSE (IF x % 2 # 0 THEN 180 ELSE 0)
                p(k, b) ==
                    add(At(transform(polyline(triangle, styles),
                               << translate(Sub(Mul(Times(k, sideLength), Q(1, 2)),
                                                Half(sideLength)),
                                            Times(y, triangleHeight)),
                                  rotate(N(rotation), Half(sideLength),
                                         Half(triangleHeight)) >>), i, b))
            IN  << read(i), p(x, "cell") >> \o When(x = 0, << p(6, "right") >>)
    IN  << read(0), setWidth(Times(3, sideLength)), setHeight(Times(6, triangleHeight)) >>
        \o Flatten([i \in 0..35 |-> cell(i)], 0, 36)

geoDiamonds(hash) ==
    LET diamondWidth  == map(hexVal(hash, 0), 0, 15, N(10), N(50))
        diamondHeight == map(hexVal(hash, 1), 0, 15, N(10), N(50))
        diamond       == buildDiamondShape(diamondWidth, diamondHeight)
        cell(i) ==
            LET x == i % 6
                y == i \div 6
                val == hexVal(hash, i)
                styles == [fill |-> fillColor(val), fillOpacity |-> fillOpacity(val),
                           stroke |-> STROKE_COLOR, strokeOpacity |-> STROKE_OPACITY]
                dx == IF y % 2 = 0 THEN N(0) ELSE Half(diamondWidth)
                tx(k) == Add(Sub(Times(k, diamondWidth), Half(diamondWidth)), dx)
                ty(k) == Sub(Times(k, Half(diamondHeight)), Half(diamondHeight))
                p(t, b) == add(At(transform(polyline(diamond, styles), <<t>>), i, b))
            IN  << read(i), p(translate(tx(x), ty(y)), "cell") >>
                \o When(x = 0, << p(translate(tx(6), ty(y)), "right") >>)
                \o When(y = 0, << p(translate(tx(x), ty(6)), "bottom") >>)
                \o When(x = 0 /\ y = 0, << p(translate(tx(6), ty(6)), "corner") >>)
    IN  << read(0), setWidth(Times(6, diamondWidth)), setHeight(Times(3, diamondHeight)) >>
        \o Flatten([i \in 0..35 |-> cell(i)], 0, 36)

\* geoNestedSquares with the mirrored read one nibble further
geoNestedSquaresPastEnd(hash) ==
    LET blockSize  == map(hexVal(hash, 0), 0, 15, N(4), N(12))
        squareSize == Times(7, blockSize)
        cell(i) ==
            LET x == i % 6
                y == i \div 6
                val == hexVal(hash, i)
                val2 == hexVal(hash, 40 - i)
                sx == Add(Add(Times(x, squareSize), Times(2 * x, blockSize)),
                          Half(blockSize))
                sy == Add(Add(Times(y, squareSize), Times(2 * y, blockSize)),
                          Half(blockSize))
                st(v) == [fill |-> "none", stroke |-> fillColor(v),
                          opacity |-> fillOpacity(v), strokeWidth |-> Px(blockSize)]
            IN  << read(i), add(At(rect(sx, sy, squareSize, squareSize, st(val)), i, "cell")),
                   read(40 - i),
                   add(At(rect(Add(sx, Times(2, blockSize)), Add(sy, Times(2, blockSize)),
                               Times(3, blockSize), Times(3, blockSize), st(val2)),
                          i, "inner")) >>
        side == Add(Times(6, Add(squareSize, blockSize)), Times(6, blockSize))
    IN  << read(0), setWidth(side), setHeight(side) >>
        \o Flatten([i \in 0..35 |-> cell(i)], 0, 36)

geoNestedSquares(hash) ==
    LET blockSize  == map(hexVal(hash, 0), 0, 15, N(4), N(12))
        squareSize == Times(7, blockSize)
        cell(i) ==
            LET x == i % 6
                y == i \div 6
                val == hexVal(hash, i)
                val2 == hexVal(hash, 39 - i)
                sx == Add(Add(Times(x, squareSize), Times(2 * x, blockSize)),
                          Half(blockSize))
                sy == Add(Add(Times(y, squareSize), Times(2 * y, blockSize)),
                          Half(blockSize))
                st(v) == [fill |-> "none", stroke |-> fillColor(v),
                          opacity |-> fillOpacity(v), strokeWidth |-> Px(blockSize)]
            IN  << read(i), add(At(rect(sx, sy, squareSize, squareSize, st(val)), i, "cell")),
                   read(39 - i),
                   add(At(rect(Add(sx, Times(2, blockSize)), Add(sy, Times(2, blockSize)),
                               Times(3, blockSize), Times(3, blockSize), st(val2)),
                          i, "inner")) >>
        side == Add(Times(6, Add(squareSize, blockSize)), Times(6, blockSize))
    IN  << read(0), setWidth(side), setHeight(side) >>
        \o Flatten([i \in 0..35 |-> cell(i)], 0, 36)

MosaicStyles(val) ==
    [stroke |-> STROKE_COLOR, strokeOpacity |-> STROKE_OPACITY,
     fillOpacity |-> fillOpacity(val), fill |-> fillColor(val)]

drawInnerMosaicTile(x, y, triangleSize, vals, i) ==
    LET triangle == buildRightTriangleShape(triangleSize)
        p(st, tx, ty, sx, sy) ==
            add(At(transform(polyline(triangle, st), <<translate(tx, ty), scale(sx, sy)>>),
                   i, "inner"))
    IN  << p(MosaicStyles(vals[1]), Add(x, triangleSize), y, -1, 1),
           p(MosaicStyles(vals[1]), Add(x, triangleSize), Add(y, Times(2, triangleSize)), 1, -1),
           p(MosaicStyles(vals[2]), Add(x, triangleSize), Add(y, Times(2, triangleSize)), -1, -1),
           p(MosaicStyles(vals[2]), Add(x, triangleSize), y, 1, 1) >>

\* drawOuterMosaicTile without its fourth triangle
drawOuterMosaicTileThree(x, y, triangleSize, val, i) ==
    LET triangle == buildRightTriangleShape(triangleSize)
        styles == MosaicStyles(val)
        p(tx, ty, sx, sy) ==
            add(At(transform(polyline(triangle, styles), <<translate(tx, ty), scale(sx, sy)>>),
                   i, "outer"))
    IN  << p(x, Add(y, triangleSize), 1, -1),
           p(Add(x, Times(2, triangleSize)), Add(y, triangleSize), -1, -1),
           p(x, Add(y, triangleSize), 1, 1) >>

drawOuterMosaicTile(x, y, triangleSize, val, i) ==
    LET triangle == buildRightTriangleShape(triangleSize)
        styles == MosaicStyles(val)
        p(tx, ty, sx, sy) ==
            add(At(transform(polyline(triangle, styles), <<translate(tx, ty), scale(sx, sy)>>),
                   i, "outer"))
    IN  << p(x, Add(y, triangleSize), 1, -1),
           p(Add(x, Times(2, triangleSize)), Add(y, triangleSize), -1, -1),
           p(x, Add(y, triangleSize), 1, 1),
           p(Add(x, Times(2, triangleSize)), Add(y, triangleSize), -1, 1) >>

geoMosaicSquares(hash) ==
    LET triangleSize == map(hexVal(hash, 0), 0, 15, N(15), N(50))
        cell(i) ==
            LET x == i % 4
                y == i \div 4
                px == Times(2 * x, triangleSize)
                py == Times(2 * y, triangleSize)
                outer == << read(i) >>
                         \o drawOuterMosaicTile(px, py, triangleSize, hexVal(hash, i), i)
                inner == << read(i), read(i + 1) >>
                         \o drawInnerMosaicTile(px, py, triangleSize,
                                                <<hexVal(hash, i), hexVal(hash, i + 1)>>, i)
            IN  IF x % 2 = 0
                THEN (IF y % 2 = 0 THEN outer ELSE inner)
                ELSE (IF y % 2 = 0 THEN inner ELSE outer)
    IN  << read(0), setWidth(Times(8, triangleSize)), setHeight(Times(8, triangleSize)) >>
        \o Flatten([i \in 0..15 |-> cell(i)], 0, 16)

RECURSIVE PlaidScan(_, _, _, _)
\* one while loop of geoPlaid: <<calls made, final offset>>
PlaidScan(hash, i, offset, horizontal) ==
    IF i >= 36 THEN <<<<>>, offset>>
    ELSE LET space  == hexVal(hash, i)
             at     == Add(offset, Add(space, N(5)))
             val    == hexVal(hash, i + 1)
             stripe == Add(val, N(5))
             styles == [opacity |-> fillOpacity(val), fill |-> fillColor(val)]
             el     == IF horizontal
                       THEN At(rect(N(0), at, Pct100, stripe, styles), i, "horizontal")
                       ELSE At(rect(at, N(0), stripe, Pct100, styles), i, "vertical")
             rest   == PlaidScan(hash, i + 2, Add(at, stripe), horizontal)
         IN  << << read(i), read(i + 1), add(el) >> \o rest[1], rest[2] >>

\* geoPlaid with the vertical scan going on where the horizontal one ended
geoPlaidOneScan(hash) ==
    LET h == PlaidScan(hash, 0, N(0), TRUE)
        v == PlaidScan(hash, 36, h[2], FALSE)
    IN  h[1] \o v[1] \o << setWidth(v[2]), setHeight(h[2]) >>

\* geoPlaid with the vertical scan starting one pair into the digest
geoPlaidSkewed(hash) ==
    LET h == PlaidScan(hash, 0, N(0), TRUE)
        v == PlaidScan(hash, 2, N(0), FALSE)
    IN  h[1] \o v[1] \o << setWidth(v[2]), setHeight(h[2]) >>

geoPlaid(hash) ==
    LET h == PlaidScan(hash, 0, N(0), TRUE)
        v == PlaidScan(hash, 0, N(0), FALSE)
    IN  h[1] \o v[1] \o << setWidth(v[2]), setHeight(h[2]) >>

geoTessellation(hash) ==
    LET sideLength     == map(hexVal(hash, 0), 0, 15, N(5), N(40))
        hexHeight      == Mul(sideLength, Sqrt3)
        hexWidth       == Times(2, sideLength)
        triangleHeight == Mul(Half(sideLength), Sqrt3)
        triangle       == buildRotatedTriangleShape(sideLength, triangleHeight)
        tileWidth      == Add(Times(3, sideLength), Times(2, triangleHeight))
        tileHeight     == Add(Times(2, hexHeight), Times(2, sideLength))
        s2             == Half(sideLength)
        Z              == N(0)
        case(i) ==
            LET val == hexVal(hash, i)
                styles == [stroke |-> STROKE_COLOR, strokeOpacity |-> STROKE_OPACITY,
                           fill |-> fillColor(val), fillOpacity |-> fillOpacity(val),
                           strokeWidth |-> N(1)]
                r(x, y) == add(At(rect(x, y, sideLength, sideLength, styles), i, "case"))
                t(tr) == add(At(transform(polyline(triangle, styles), tr), i, "case"))
                q(tr) == add(At(transform(rect(Z, Z, sideLength, sideLength, styles), tr),
                                i, "case"))
                rot0 == rotate(Z, s2, Half(triangleHeight))
                midY == Sub(Sub(Half(tileHeight), s2), sideLength)
            IN  << read(i) >> \o
                CASE i = 0 -> << r(Neg(s2), Neg(s2)),
                                 r(Sub(tileWidth, s2), Neg(s2)),
                                 r(Neg(s2), Sub(tileHeight, s2)),
                                 r(Sub(tileWidth, s2), Sub(tileHeight, s2)) >>
                  [] i = 1 -> << r(Add(Half(hexWidth), triangleHeight), Half(hexHeight)) >>
                  [] i = 2 -> << r(Neg(s2), Sub(Half(tileHeight), s2)),
                                 r(Sub(tileWidth, s2), Sub(Half(tileHeight), s2)) >>
                  [] i = 3 -> << r(Add(Half(hexWidth), triangleHeight),
                                   Add(Mul(hexHeight, Q(3, 2)), sideLength)) >>
                  [] i = 4 -> << t(<<translate(s2, Neg(s2)), rot0>>),
                                 t(<<translate(s2, Sub(tileHeight, Neg(s2))), rot0,
                                     scale(1, -1)>>) >>
                  [] i = 5 -> << t(<<translate(Sub(tileWidth, s2), Neg(s2)), rot0,
                                     scale(-1, 1)>>),
                                 t(<<translate(Sub(tileWidth, s2), Add(tileHeight, s2)), rot0,
                                     scale(-1, -1)>>) >>
                  [] i = 6 -> << t(<<translate(Add(Half(tileWidth), s2), Half(hexHeight))>>) >>
                  [] i = 7 -> << t(<<translate(Sub(Sub(tileWidth, Half(tileWidth)), s2),
                                               Half(hexHeight)), scale(-1, 1)>>) >>
                  [] i = 8 -> << t(<<translate(Add(Half(tileWidth), s2),
                                               Sub(tileHeight, Half(hexHeight))),
                                     scale(1, -1)>>) >>
                  [] i = 9 -> << t(<<translate(Sub(Sub(tileWidth, Half(tileWidth)), s2),
                                               Sub(tileHeight, Half(hexHeight))),
                                     scale(-1, -1)>>) >>
                  [] i = 10 -> << t(<<translate(s2, Sub(Half(tileHeight), s2))>>) >>
                  [] i = 11 -> << t(<<translate(Sub(tileWidth, s2), Sub(Half(tileHeight), s2)),
                                      scale(-1, 1)>>) >>
                  [] i = 12 -> << q(<<translate(s2, s2), rotate(N(-30), Z, Z)>>) >>
                  [] i = 13 -> << q(<<scale(-1, 1), translate(Add(Neg(tileWidth), s2), s2),
                                      rotate(N(-30), Z, Z)>>) >>
                  [] i = 14 -> << q(<<translate(s2, midY), rotate(N(30), Z, sideLength)>>) >>
                  [] i = 15 -> << q(<<scale(-1, 1), translate(Add(Neg(tileWidth), s2), midY),
                                      rotate(N(30), Z, sideLength)>>) >>
                  [] i = 16 -> << q(<<scale(1, -1),
                                      translate(s2, Sub(Sub(Add(Neg(tileHeight), Half(tileHeight)),
                                                            s2), sideLength)),
                                      rotate(N(30), Z, sideLength)>>) >>
                  [] i = 17 -> << q(<<scale(-1, -1),
                                      translate(Add(Neg(tileWidth), s2),
                                                Sub(Sub(Add(Neg(tileHeight), Half(tileHeight)),
                                                        s2), sideLength)),
                                      rotate(N(30), Z, sideLength)>>) >>
                  [] i = 18 -> << q(<<scale(1, -1), translate(s2, Add(Neg(tileHeight), s2)),
                                      rotate(N(-30), Z, Z)>>) >>
                  [] i = 19 -> << q(<<scale(-1, -1),
                                      translate(Add(Neg(tileWidth), s2),
                                                Add(Neg(tileHeight), s2)),
                                      rotate(N(-30), Z, Z)>>) >>
    IN  << read(0), setWidth(tileWidth), setHeight(tileHeight) >>
        \o Flatten([i \in 0..19 |-> case(i)], 0, 20)

---------------------------------------------------------------------------
(* Collaborators: lib/color.js and lib/sha1.js                             *)
(*                                                                         *)
(* A hex color "#rrggbb" is the sequence of its six digits.  An RGB value  *)
(* is <<r, g, b>> with integer channels, an HSL value [h, s, l] with       *)
(* numbers in 0..1.                                                        *)

hex2rgb(hex) ==
    << 16 * hex[1] + hex[2], 16 * hex[3] + hex[4], 16 * hex[5] + hex[6] >>

\* a channel is an integer, or NaNChannel when it was computed from NaN
NaNChannel == -1

\* ('0' + channel.toString(16)).slice(-2)
HexPair(c) == IF c = NaNChannel THEN << 10, UpperNChar >> ELSE << c \div 16, c % 16 >>

rgb2hex(rgb) == HexPair(rgb[1]) \o HexPair(rgb[2]) \o HexPair(rgb[3])

rgb2rgbString(rgb) == << "rgb(", rgb[1], ", ", rgb[2], ", ", rgb[3], ")" >>

\* lightness of the extremes max and min of the three channels
Lightness(max, min) == Half(Add(max, min))

Saturation(max, min, l) ==
    IF Less(Q(1, 2), l) THEN Div(Sub(max, min), Sub(Sub(N(2), max), min))
    ELSE Div(Sub(max, min), Add(max, min))

\* six times the hue; d = max - min
Hue6(r, g, b, max, d) ==
    IF max = r THEN Add(Div(Sub(g, b), d), IF Less(g, b) THEN N(6) ELSE N(0))
    ELSE IF max = g THEN Add(Div(Sub(b, r), d), N(2))
    ELSE Add(Div(Sub(r, g), d), N(4))

HslOf(r, g, b, max, min) ==
    IF max = min THEN [h |-> N(0), s |-> N(0), l |-> Lightness(max, min)]
    ELSE [h |-> Div(Hue6(r, g, b, max, Sub(max, min)), N(6)),
          s |-> Saturation(max, min, Lightness(max, min)),
          l |-> Lightness(max, min)]

HslOfChannels(r, g, b) == HslOf(r, g, b, Max(r, Max(g, b)), Min(r, Min(g, b)))

rgb2hsl(rgb) == HslOfChannels(Q(rgb[1], 255), Q(rgb[2], 255), Q(rgb[3], 255))

\* x rounded to the nearest multiple of 1/grid; c = GCD(grid, x[3])
QuantBy(x, grid, c) ==
    Div(Round(<< x[1] * (grid \div c), 0, x[3] \div c >>), N(grid))

Quant(x, grid) == QuantBy(x, grid, GCD(grid, x[3]))

\* t brought into 0..1
WrapUnit(t) ==
    IF Less(t, N(0)) THEN Add(t, N(1))
    ELSE IF Less(N(1), t) THEN Sub(t, N(1)) ELSE t

HueChannel(p, q, t) ==
    IF Less(t, Q(1, 6)) THEN Add(p, Mul(Sub(q, p), Times(6, t)))
    ELSE IF Less(t, Q(1, 2)) THEN q
    ELSE IF Less(t, Q(2, 3)) THEN Add(p, Mul(Sub(q, p), Times(6, Sub(Q(2, 3), t))))
    ELSE p

hue2rgb(p, q, t) == HueChannel(p, q, WrapUnit(t))

\* Math.round(17 * x15) for a rational x15, its whole part taken first
Round17(x15, whole) == Round(Add(Times(17, whole), Times(17, Sub(x15, whole))))[1]

\* Math.round(x * 255) for a rational x, multiplying by 15 and then by 17
Round255(x15) == Round17(x15, Floor(x15))

Channel(x) == Round255(Times(15, x))

Grey(c) == << c, c, c >>

RgbOf(h, p, q) ==
    << Channel(hue2rgb(p, q, Add(h, Q(1, 3)))),
       Channel(hue2rgb(p, q, h)),
       Channel(hue2rgb(p, q, Sub(h, Q(1, 3)))) >>

RgbOfQ(h, l, q) == RgbOf(h, Sub(Times(2, l), q), q)

RgbOfHsl(h, s, l) ==
    IF s = N(0) THEN Grey(Channel(l))
    ELSE RgbOfQ(h, l, IF Less(l, Q(1, 2)) THEN Mul(l, Add(N(1), s))
                      ELSE Sub(Add(l, s), Mul(l, s)))

hsl2rgb(hsl) ==
    IF IsNaN(hsl.h) \/ IsNaN(hsl.s) \/ IsNaN(hsl.l)
    THEN Grey(NaNChannel)
    \* hue is read to 1/1800 of a turn, saturation and lightness to 1/500
    ELSE RgbOfHsl(Quant(hsl.h, 1800), Quant(hsl.s, 500), Quant(hsl.l, 500))

GitHubDigest ==
    << 5,4,4,2,14,2,11,6,4,15,10,0,9,7,6,4,11,9,15,5,
       9,3,8,6,7,14,5,9,10,9,7,2,9,2,12,8,4,0,5,9 >>

EmptyDigest ==
    << 13,10,3,9,10,3,14,14,5,14,6,11,4,11,0,13,3,2,5,5,
       11,15,14,15,9,5,6,0,1,8,9,0,10,15,13,8,0,7,0,9 >>

Date1 == "Wed Nov 04 2026 17:34:56 GMT+0000 (Coordinated Universal Time)"

Date2 == "Wed Nov 04 2026 17:34:57 GMT+0000 (Coordinated Universal Time)"

Date1Digest ==
    << 8,1,12,7,14,0,7,4,4,0,8,8,8,2,2,1,13,4,7,2,
       3,7,3,14,13,5,4,3,15,3,8,8,10,5,9,11,3,3,0,13 >>

Date2Digest ==
    << 8,2,13,7,11,9,11,9,5,0,4,12,5,2,14,3,10,13,13,3,
       12,9,2,9,6,14,2,8,15,1,7,4,2,8,0,5,6,10,10,11 >>

\* SHA-1 of the strings the model feeds to generate
sha1(string) ==
    CASE string = "GitHub" -> GitHubDigest
      [] string = ""       -> EmptyDigest
      [] string = Date1    -> Date1Digest
      [] string = Date2    -> Date2Digest

---------------------------------------------------------------------------
(* Values of the entry point's arguments *)

Undef == << -1 >>

Null == << -2 >>

\* an options object; a field that is not set holds Undef
Options(baseColor, color, generator, hash) ==
    [baseColor |-> baseColor, color |-> color, generator |-> generator, hash |-> hash]

NoOptions == Options(Undef, Undef, Undef, Undef)

StringArg(s) == [type |-> "string", value |-> s, options |-> NoOptions]

UndefinedArg == [type |-> "undefined", value |-> "", options |-> NoOptions]

NullArg == [type |-> "object", value |-> "null", options |-> NoOptions]

ObjectArg(o) == [type |-> "object", value |-> "object", options |-> o]

IsNullish(arg) == arg.type = "undefined" \/ (arg.type = "object" /\ arg.value = "null")

\* JavaScript truthiness of an option: set, and not the empty string
Truthy(v) == v # Undef /\ v # EmptyStr

---------------------------------------------------------------------------
(* class Pattern *)

NoError == [name |-> "none", message |-> <<>>]

Error(message) == [name |-> "Error", message |-> message]

TypeError == [name |-> "TypeError", message |-> <<"undefined has no slice">>]

Lower == << "a", "b", "c", "d", "e", "f", "g", "h", "i", "j", "k", "l", "m",
            "n", "o", "p", "q", "r", "s", "t", "u", "v", "w", "x", "y", "z" >>

Upper == << "A", "B", "C", "D", "E", "F", "G", "H", "I", "J", "K", "L", "M",
            "N", "O", "P", "Q", "R", "S", "T", "U", "V", "W", "X", "Y", "Z" >>

toUpperCase(c) ==
    IF \E k \in 1..26 : Lower[k] = c
    THEN Upper[CHOOSE k \in 1..26 : Lower[k] = c]
    ELSE c

\* 'geo' + generator.slice(0, 1).toUpperCase() + generator.slice(1)
MethodName(generator) == << "geo", toUpperCase(generator[1]), generator[2] >>

\* the geo* methods the class defines
Methods ==
    { << "geo", "H", "exagons" >>, << "geo", "S", "ineWaves" >>,
      << "geo", "C", "hevrons" >>, << "geo", "P", "lusSigns" >>,
      << "geo", "X", "es" >>, << "geo", "O", "verlappingCircles" >>,
      << "geo", "O", "ctogons" >>, << "geo", "S", "quares" >>,
      << "geo", "C", "oncentricCircles" >>, << "geo", "O", "verlappingRings" >>,
      << "geo", "T", "riangles" >>, << "geo", "D", "iamonds" >>,
      << "geo", "N", "estedSquares" >>, << "geo", "M", "osaicSquares" >>,
      << "geo", "P", "laid" >>, << "geo", "T", "essellation" >> }

\* this[name](): the calls the method makes on the surface
Invoke(name, hash) ==
    CASE name = << "geo", "H", "exagons" >>           -> geoHexagons(hash)
      [] name = << "geo", "S", "ineWaves" >>          -> geoSineWaves(hash)
      [] name = << "geo", "C", "hevrons" >>           -> geoChevrons(hash)
      [] name = << "geo", "P", "lusSigns" >>          -> geoPlusSigns(hash)
      [] name = << "geo", "X", "es" >>                -> geoXes(hash)
      [] name = << "geo", "O", "verlappingCircles" >> -> geoOverlappingCircles(hash)
      [] name = << "geo", "O", "ctogons" >>           -> geoOctogons(hash)
      [] name = << "geo", "S", "quares" >>            -> geoSquares(hash)
      [] name = << "geo", "C", "oncentricCircles" >>  -> geoConcentricCircles(hash)
      [] name = << "geo", "O", "verlappingRings" >>   -> geoOverlappingRings(hash)
      [] name = << "geo", "T", "riangles" >>          -> geoTriangles(hash)
      [] name = << "geo", "D", "iamonds" >>           -> geoDiamonds(hash)
      [] name = << "geo", "N", "estedSquares" >>      -> geoNestedSquares(hash)
      [] name = << "geo", "M", "osaicSquares" >>      -> geoMosaicSquares(hash)
      [] name = << "geo", "P", "laid" >>              -> geoPlaid(hash)
      [] name = << "geo", "T", "essellation" >>       -> geoTessellation(hash)

\* { ...DEFAULTS, ...options }
Merge(options) ==
    [options EXCEPT !.baseColor = IF @ = Undef THEN DEFAULTS.baseColor ELSE @]

\* Shifted with the hue left in degrees
ShiftedDegrees(baseColor, hueOffset, satOffset) ==
    [h |-> Mod(Add(Sub(Mul(baseColor.h, N(360)), hueOffset), N(360)), N(360)),
     s |-> IF IsEven(satOffset)
           THEN Min(N(1), Div(Add(Mul(baseColor.s, N(100)), satOffset), N(100)))
           ELSE Max(N(0), Div(Sub(Mul(baseColor.s, N(100)), satOffset), N(100))),
     l |-> baseColor.l]

\* baseColor with its hue and saturation shifted by the two offsets
Shifted(baseColor, hueOffset, satOffset) ==
    [h |-> Div(Mod(Add(Sub(Mul(baseColor.h, N(360)), hueOffset), N(360)), N(360)),
               N(360)),
     s |-> IF IsEven(satOffset)
           THEN Min(N(1), Div(Add(Mul(baseColor.s, N(100)), satOffset), N(100)))
           ELSE Max(N(0), Div(Sub(Mul(baseColor.s, N(100)), satOffset), N(100))),
     l |-> baseColor.l]

\* the else branch of generateBackground: the color derived from the digest
hashedColor(this) ==
    hsl2rgb(Shifted(rgb2hsl(hex2rgb(this.opts.baseColor)),
                    map(hexValLen(this.hash, 14, 3), 0, 4095, N(0), N(359)),
                    hexVal(this.hash, 17)))

\* the tail of generateBackground: the color is recorded and the rect drawn.
\* reads lists the <<index, length>> of the digest reads made so far.
paintBackground(this, override, rgb) ==
    [this EXCEPT
        !.color = rgb2hex(rgb),
        !.reads = IF override THEN @ ELSE @ \o << <<14, 3>>, <<17, 1>> >>,
        !.svg = call(@, add(At(rect(N(0), N(0), Pct100, Pct100,
                                    [fill |-> rgb2rgbString(rgb)]),
                               0, "background")))]

\* The body of generateBackground; override is the test of this.opts.color
resolveBackground(this, override) ==
    paintBackground(this, override,
                    IF override THEN hex2rgb(this.opts.color) ELSE hashedColor(this))

\* generateBackground with the explicit color ignored
generateBackgroundHashOnly(this) == resolveBackground(this, FALSE)

generateBackground(this) == resolveBackground(this, Truthy(this.opts.color))

\* this after the method generator made the calls cs; drawReads lists the
\* digest reads of the method, in order
invoked(this, generator, cs) ==
    [this EXCEPT !.generator = generator,
                 !.svg = run(@, cs),
                 !.drawReads = ReadsOf(cs)]

\* this[name]() for the method name built from generator; a TypeError when
\* generator is undefined or the class has no such method
dispatch(this, generator) ==
    IF generator = Undef \/ MethodName(generator) \notin Methods
    THEN [this EXCEPT !.thrown = TypeError]
    ELSE invoked(this, generator, Invoke(MethodName(generator), this.hash))

\* PATTERNS[hexVal(this.hash, index)]
\* PATTERNS[v]
PatternAt(v) == IF IsNaN(v) THEN Undef ELSE PATTERNS[v[1] + 1]

fromHash(this, index) == PatternAt(hexVal(this.hash, index))

Reading(this, index) == [this EXCEPT !.reads = Append(@, <<index, 1>>)]

Unknown(generator) == \A k \in 1..Len(PATTERNS) : PATTERNS[k] # generator

DoesNotExist(generator) == Error(<< "The generator ", generator, " does not exist." >>)

\* generatePattern with the digest's choice taking precedence over the option
generatePatternHashFirst(this) ==
    IF Truthy(this.opts.generator) /\ Unknown(this.opts.generator)
    THEN [this EXCEPT !.thrown = DoesNotExist(this.opts.generator)]
    ELSE dispatch(Reading(this, 20), fromHash(this, 20))

\* generatePattern without the test of the name
generatePatternUnchecked(this) ==
    dispatch(IF Truthy(this.opts.generator) THEN this ELSE Reading(this, 20),
             IF Truthy(this.opts.generator) THEN this.opts.generator
             ELSE fromHash(this, 20))

\* generatePattern testing the name after drawing the digest's choice
generatePatternCheckLast(this) ==
    [dispatch(IF Truthy(this.opts.generator) /\ ~Unknown(this.opts.generator)
              THEN this ELSE Reading(this, 20),
              IF Truthy(this.opts.generator) /\ ~Unknown(this.opts.generator)
              THEN this.opts.generator ELSE fromHash(this, 20))
        EXCEPT !.thrown = IF Truthy(this.opts.generator)
                             /\ Unknown(this.opts.generator)
                          THEN DoesNotExist(this.opts.generator) ELSE @]

\* generatePattern reading the nibble before the one it should
generatePatternWrongNibble(this) ==
    IF Truthy(this.opts.generator) /\ Unknown(this.opts.generator)
    THEN [this EXCEPT !.thrown = DoesNotExist(this.opts.generator)]
    ELSE dispatch(IF Truthy(this.opts.generator) THEN this ELSE Reading(this, 19),
                  IF Truthy(this.opts.generator) THEN this.opts.generator
                  ELSE fromHash(this, 19))

\* generator = this.opts.generator, tested, or else PATTERNS[hexVal(20)];
\* then the one call this['geo' + ...]()
generatePattern(this) ==
    IF Truthy(this.opts.generator) /\ Unknown(this.opts.generator)
    THEN [this EXCEPT !.thrown = DoesNotExist(this.opts.generator)]
    ELSE dispatch(IF Truthy(this.opts.generator) THEN this ELSE Reading(this, 20),
                  IF Truthy(this.opts.generator) THEN this.opts.generator
                  ELSE fromHash(this, 20))

NewPattern(string, options, surface) ==
    [opts |-> Merge(options),
     hash |-> IF Truthy(options.hash) THEN options.hash ELSE sha1(string),
     svg |-> surface, color |-> Undef, generator |-> Undef,
     reads |-> <<>>, drawReads |-> <<>>, thrown |-> NoError]

\* the constructor drawing the pattern before the background
ConstructPatternFirst(string, options, surface) ==
    CHOOSE made \in { IF drawn.thrown # NoError THEN drawn ELSE generateBackground(drawn) :
                      drawn \in { generatePattern(NewPattern(string, options, surface)) } } :
        TRUE

\* new Pattern(string, options); surface is the result of new SVG()
Construct(string, options, surface) ==
    generatePattern(generateBackground(NewPattern(string, options, surface)))

\* the constructor drawing on the surface of the object constructed before
PatternSharedSurface(string, options, past) ==
    Construct(string, options,
              IF past = <<>> THEN NewSVG ELSE past[Len(past)].pattern.svg)

\* past: the calls made so far, with the objects they constructed
Pattern(string, options, past) == Construct(string, options, NewSVG)

\* svg.toString(): the document text, as the declared size and the elements
\* in emission order
svgToString(svg) ==
    [xmlns |-> "http://www.w3.org/2000/svg", width |-> svg.width,
     height |-> svg.height,
     body |-> [k \in 1..Len(svg.els) |-> [svg.els[k] EXCEPT !.at = <<>>]]]

\* window.btoa(str) and Buffer.from(str).toString('base64')
btoa(str) == << "base64", str >>

BufferBase64(str) == << "base64", str >>

\* Each method returns [value, this]: what it returns and the object after it

\* toSvg emptying the surface it serializes
toSvgDraining(this) ==
    [value |-> svgToString(this.svg), this |-> [this EXCEPT !.svg.els = <<>>]]

toSvg(this) == [value |-> svgToString(this.svg), this |-> this]

toString(this) == toSvg(this)

toBase64(this, browser) ==
    LET r == toSvg(this)
    IN  [value |-> IF browser THEN btoa(r.value) ELSE BufferBase64(r.value),
         this |-> r.this]

toDataUri(this, browser) ==
    LET r == toBase64(this, browser)
    IN  [value |-> << "data:image/svg+xml;base64,", r.value >>, this |-> r.this]

toDataUrl(this, browser) ==
    LET r == toDataUri(this, browser)
    IN  [value |-> << "url(\"", r.value, "\")" >>, this |-> r.this]

---------------------------------------------------------------------------
(* lib/index.js *)

\* generate(a, b) when new Date().toString() is now
generate(a, b, now, past) ==
    LET options1 == IF a.type = "object" THEN a ELSE b
        isNull   == a.type = "object" \/ IsNullish(a)
        string   == IF isNull THEN now ELSE a.value
        options  == IF IsNullish(options1) THEN NoOptions ELSE options1.options
    IN  Pattern(string, options, past)

---------------------------------------------------------------------------
(* Inputs *)

MaxShift == 15

\* the digest whose every nibble is that of digest plus k
Shift(digest, k) == [i \in 1..Len(digest) |-> (digest[i] + k) % 16]

Hashes == { Undef } \cup { Shift(GitHubDigest, k) : k \in 1..MaxShift }

Orange == << 15, 15, 7, 15, 0, 0 >>

Teal == << 3, 12, 9, 3, 8, 12 >>

UnknownNames == { Str("o", "ctagons"), Str("d", "oesNotExist") }

Generators ==
    { Undef, EmptyStr } \cup { PATTERNS[k] : k \in 1..Len(PATTERNS) } \cup UnknownNames

WideOptions ==
    { Options(Undef, c, g, h) : c \in { Undef, Orange }, g \in Generators, h \in Hashes }
    \cup { Options(Teal, c, Undef, h) : c \in { Undef, Orange }, h \in Hashes }

FewOptions ==
    { Options(Undef, c, g, Undef) :
        c \in { Undef, Orange }, g \in { Undef, Str("s", "ineWaves") } }

TwiceOptions ==
    { Options(Undef, Orange, Str("s", "ineWaves"), Undef),
      Options(Undef, Undef, Str("d", "oesNotExist"), Undef) }

TwiceFirstArgs == { StringArg("GitHub"), StringArg(""), UndefinedArg }

TwiceSecondArgs == { UndefinedArg } \cup { ObjectArg(o) : o \in TwiceOptions }

Dates == { Date1, Date2 }

FirstArgs ==
    { StringArg("GitHub"), StringArg(""), UndefinedArg, NullArg }
    \cup { ObjectArg(o) : o \in FewOptions }

SecondArgs == { UndefinedArg, NullArg } \cup { ObjectArg(o) : o \in FewOptions }

Calls ==
    { << StringArg("GitHub"), ObjectArg(o) >> : o \in WideOptions }
    \cup (FirstArgs \X SecondArgs)

MaxCalls == 2

\* ASCII code of 'g', the first letter that is no hexadecimal digit
LowerGChar == 103

\* digest with the character at index replaced by c
WithChar(digest, index, c) == [digest EXCEPT ![index + 1] = c]

\* values of options.hash that are no 40-digit hexadecimal string
MalformedHashes ==
    { SubSeq(GitHubDigest, 1, 20), SubSeq(GitHubDigest, 1, 21), << LowerGChar >>,
      GitHubDigest \o << 10 >>,
      WithChar(GitHubDigest, 0, LowerGChar), WithChar(GitHubDigest, 15, LowerGChar),
      WithChar(GitHubDigest, 20, LowerGChar), WithChar(GitHubDigest, 20, SpaceChar) }

\* the longest digest handed to hexVal on its own
MaxDigestLen == 3

\* characters of a digest: two digits, and 'g', ' ', '-' and 'x'
DigestChars == { 0, 11, LowerGChar, SpaceChar, MinusChar, LowerXChar }

ShortDigests == UNION { [1..n -> DigestChars] : n \in 1..MaxDigestLen }

MalformedOptions ==
    { Options(Undef, Undef, g, h) :
        g \in { Undef, Str("d", "oesNotExist") } \cup { PATTERNS[k] : k \in 1..Len(PATTERNS) },
        h \in MalformedHashes }

---------------------------------------------------------------------------
(* The behaviours *)

NoReturn == [method |-> "none", value |-> <<>>]

Init == history = <<>> /\ ret = NoReturn

Last == history[Len(history)]

\* a caller evaluates generate(a, b)
GenerateCall(a, b, now) ==
    /\ history' = Append(history,
                         [a |-> a, b |-> b, pattern |-> generate(a, b, now, history)])
    /\ ret' = NoReturn

Holds == history # <<>> /\ Last.pattern.thrown = NoError

Returned(method, r) ==
    /\ ret' = [method |-> method, value |-> r.value]
    /\ history' = [history EXCEPT ![Len(history)].pattern = r.this]

CallToSvg == Holds /\ Returned("toSvg", toSvg(Last.pattern))

CallToString == Holds /\ Returned("toString", toString(Last.pattern))

CallToBase64 ==
    Holds /\ \E browser \in BOOLEAN : Returned("toBase64", toBase64(Last.pattern, browser))

CallToDataUri ==
    Holds /\ \E browser \in BOOLEAN : Returned("toDataUri", toDataUri(Last.pattern, browser))

CallToDataUrl ==
    Holds /\ \E browser \in BOOLEAN : Returned("toDataUrl", toDataUrl(Last.pattern, browser))

Export == CallToSvg \/ CallToString \/ CallToBase64 \/ CallToDataUri \/ CallToDataUrl

\* the clock is read only when the first argument is not a string
Clock(a) == IF a.type = "string" THEN { Date1 } ELSE Dates

Generate ==
    history = <<>> /\ \E c \in Calls : \E now \in Clock(c[1]) : GenerateCall(c[1], c[2], now)

Next == Generate \/ Export

Spec == Init /\ [][Next]_vars

\* a caller that generates up to MaxCalls patterns
GenerateAgain ==
    /\ Len(history) < MaxCalls
    /\ \E a \in TwiceFirstArgs, b \in TwiceSecondArgs :
          \E now \in Clock(a) : GenerateCall(a, b, now)

NextTwice == GenerateAgain

SpecTwice == Init /\ [][NextTwice]_vars

\* a caller that supplies a digest of its own that is not well formed
GenerateMalformed ==
    /\ history = <<>>
    /\ \E o \in MalformedOptions : GenerateCall(StringArg("GitHub"), ObjectArg(o), Date1)

NextMalformed == GenerateMalformed

SpecMalformed == Init /\ [][NextMalformed]_vars

\* a caller of hexVal(hash, index, len); len = 0 stands for an omitted len
CallHexVal ==
    /\ ret = NoReturn
    /\ \E hash \in ShortDigests, index \in 0..MaxDigestLen, len \in 0..MaxDigestLen :
          /\ ret' = [method |-> "hexVal",
                     value |-> [hash |-> hash, index |-> index, len |-> len,
                                result |-> hexValLen(hash, index, len)]]
          /\ UNCHANGED history

NextHexVal == CallHexVal

SpecHexVal == Init /\ [][NextHexVal]_vars

---------------------------------------------------------------------------
(* Properties *)

Calls1 == 1..Len(history)

Done(e) == e.pattern.thrown = NoError

IsValidDigest(hash) == Len(hash) = 40 /\ \A i \in 1..40 : HexDigit(hash[i])

Nibble(hash, index) == hash[index + 1]

PatternNames == { PATTERNS[k] : k \in 1..Len(PATTERNS) }

ColorOverride ==
    \A k \in Calls1 :
        LET p == history[k].pattern
        IN  Truthy(p.opts.color)
            => /\ p.color = p.opts.color
               /\ p.svg.els[1].styles.fill = rgb2rgbString(hex2rgb(p.opts.color))
               /\ \A r \in 1..Len(p.reads) : p.reads[r][1] \notin 14..17

ColorOverrideWitness ==
    \E k \in Calls1 :
        /\ history[k].a = StringArg("")
        /\ history[k].pattern.opts.color = Orange
        /\ history[k].pattern.color = Orange
        /\ history[k].pattern.hash = EmptyDigest
        /\ Done(history[k])

\* the sixteen names as the specification lists them
SpecNames ==
    (PatternNames \ { Str("o", "ctogons") }) \cup { Str("o", "ctagons") }

\* C3 as stated: every name g of the specification's list (which has
\* "octagons") is accepted as options.generator and generator g runs.
GeneratorOverrideAsStated ==
    \A k \in Calls1 :
        LET p == history[k].pattern
        IN  p.opts.generator \in SpecNames
            => p.thrown = NoError /\ p.generator = p.opts.generator

\* C3: every name g of PATTERNS (which has "octogons", not "octagons") is
\* accepted as options.generator: generation succeeds, generator g runs and
\* nibble 20 of the digest is not read.
GeneratorOverride ==
    \A k \in Calls1 :
        LET p == history[k].pattern
        IN  p.opts.generator \in PatternNames
            => /\ p.thrown = NoError
               /\ p.generator = p.opts.generator
               /\ \A r \in 1..Len(p.reads) : p.reads[r][1] # 20

GeneratorOverrideWitness ==
    \E k \in Calls1 :
        LET p == history[k].pattern
        IN  /\ p.opts.generator = Str("o", "ctogons")
            /\ p.generator = Str("o", "ctogons")
            /\ IsValidDigest(p.hash)
            /\ PATTERNS[Nibble(p.hash, 20) + 1] = Str("c", "hevrons")
            /\ Len(p.svg.els) = 37

IsString(v) == v # Undef

\* C4 as stated: every string given as options.generator that is not one of
\* the sixteen names, the empty string included, makes generate throw an
\* error naming it.
UnknownGeneratorRejectedAsStated ==
    \A k \in Calls1 :
        LET p == history[k].pattern
        IN  (IsString(p.opts.generator) /\ p.opts.generator \notin PatternNames)
            => p.thrown = DoesNotExist(p.opts.generator)

\* C4: every non-empty string given as options.generator that is not one of
\* the sixteen names makes generate throw an error whose message names it,
\* and the caller gets no Pattern.
UnknownGeneratorRejected ==
    \A k \in Calls1 :
        LET p == history[k].pattern
        IN  (Truthy(p.opts.generator) /\ p.opts.generator \notin PatternNames)
            => /\ p.thrown = DoesNotExist(p.opts.generator)
               /\ p.generator = Undef
               /\ (k = Len(history) => ~Holds)

UnknownGeneratorRejectedWitness ==
    \E k \in Calls1 :
        /\ history[k].pattern.opts.generator = Str("d", "oesNotExist")
        /\ history[k].pattern.thrown.name = "Error"
        /\ history[k].pattern.thrown.message[2] = Str("d", "oesNotExist")

\* C5 as stated: when the unknown-generator error is thrown the surface has
\* received nothing: no background rectangle, no shape, no width or height.
FailFastAsStated ==
    \A k \in Calls1 :
        history[k].pattern.thrown.name = "Error"
        => history[k].pattern.svg.calls = <<>>

\* C5: when the unknown-generator error is thrown the surface holds the
\* background rectangle and nothing else: no generator has drawn a shape or
\* declared a width or a height, and no digest nibble was read to choose one.
FailFast ==
    \A k \in Calls1 :
        LET p == history[k].pattern
        IN  p.thrown.name = "Error"
            => /\ p.svg.calls = << "add" >>
               /\ p.svg.els[1].at = << 0, "background" >>
               /\ p.svg.width = Unset /\ p.svg.height = Unset
               /\ \A r \in 1..Len(p.reads) : p.reads[r][1] # 20

FailFastWitness ==
    \E k \in Calls1 :
        /\ history[k].pattern.thrown.name = "Error"
        /\ history[k].pattern.opts.generator = Str("o", "ctagons")
        /\ Len(history[k].pattern.svg.els) = 1

\* C6: when options.generator is omitted and the digest is 40 hexadecimal
\* digits, the generator that runs is PATTERNS[nibble 20 mod 16]; the sixteen
\* entries are distinct, and each has a method, so dispatch does not fail.
HashDerivedGenerator ==
    /\ \A k \in Calls1 :
          LET p == history[k].pattern
          IN  (~Truthy(p.opts.generator) /\ IsValidDigest(p.hash))
              => /\ p.thrown = NoError
                 /\ p.generator = PATTERNS[(Nibble(p.hash, 20) % 16) + 1]
                 /\ p.reads[Len(p.reads)] = << 20, 1 >>
    /\ Len(PATTERNS) = 16
    /\ Cardinality(PatternNames) = 16
    /\ \A g \in PatternNames : MethodName(g) \in Methods

HashDerivedGeneratorWitness ==
    \E k \in Calls1 :
        LET p == history[k].pattern
        IN  /\ p.opts.generator = Undef
            /\ IsValidDigest(p.hash)
            /\ Nibble(p.hash, 20) = 15
            /\ Nibble(p.hash, 19) # 15
            /\ p.generator = Str("c", "hevrons")

IsConfig(arg) == arg.type = "object" /\ arg.value = "object"

\* the configuration the entry point is documented to pass on
Routed(a, b) ==
    IF IsConfig(a) THEN a.options
    ELSE IF IsConfig(b) THEN b.options
    ELSE NoOptions

\* C7: the configuration that reaches the Pattern is the first argument when
\* it is a configuration object, and the second argument whenever the first
\* is a string, undefined or null.
ArgumentRouting ==
    \A k \in Calls1 : history[k].pattern.opts = Merge(Routed(history[k].a, history[k].b))

\* C8: a call of toSvg, toString, toBase64, toDataUri or toDataUrl leaves the
\* pattern as it was; it returns what the previous call of the same method
\* returned; and the value returned is layered on what the lower methods
\* return when called next: toString on toSvg, toDataUri on toBase64 with the
\* data prefix, toDataUrl on toDataUri inside url("...").
ExportStep ==
    ret'.method # "none"
    => /\ history' = history
       /\ ret.method = ret'.method => ret'.value = ret.value
       /\ \A browser \in BOOLEAN :
             LET after == history'[Len(history')].pattern
             IN  /\ ret'.method = "toString" => ret'.value = toSvg(after).value
                 /\ ret'.method = "toDataUri"
                       => ret'.value = << "data:image/svg+xml;base64,",
                                          toBase64(after, browser).value >>
                 /\ ret'.method = "toDataUrl"
                       => ret'.value = << "url(\"", toDataUri(after, browser).value,
                                          "\")" >>

ExportsReadOnly == [][ExportStep]_vars

ExportsReadOnlyWitness ==
    /\ ret.method = "toDataUrl"
    /\ Holds
    /\ Len(Last.pattern.svg.els) > 1
    /\ Last.pattern.color # Undef

BackgroundRect(el) ==
    el.tag = "rect" /\ el.attrs = << N(0), N(0), Pct100, Pct100 >>

\* C9: a successful generation appends exactly one rectangle at (0,0) sized
\* 100% x 100%; it is the first call on the surface and the first element,
\* and its fill is the rgb value whose hex form is the exposed color.  It is
\* there before the generator is resolved: a generation that throws has it.
BackgroundFirst ==
    \A k \in Calls1 :
        LET p == history[k].pattern
        IN  /\ p.svg.calls[1] = "add"
            /\ BackgroundRect(p.svg.els[1])
            /\ p.svg.els[1].styles.fill = rgb2rgbString(hex2rgb(p.color))
            /\ Done(history[k])
                  => Cardinality({ i \in 1..Len(p.svg.els) : BackgroundRect(p.svg.els[i]) }) = 1

BackgroundFirstWitness ==
    \E k \in Calls1 :
        LET p == history[k].pattern
        IN  /\ Done(history[k])
            /\ p.generator = Str("p", "laid")
            /\ p.opts.color = Undef
            /\ Len(p.svg.els) = 37
            /\ p.svg.els[2].attrs[3] = Pct100

TilingGenerators ==
    { Str("h", "exagons"), Str("p", "lusSigns"), Str("x", "es"),
      Str("o", "verlappingCircles"), Str("o", "verlappingRings"),
      Str("d", "iamonds"), Str("t", "riangles"), Str("c", "hevrons"),
      Str("s", "ineWaves") }

EdgeCopies == { "right", "bottom", "corner", "top" }

\* where an element is placed: a circle's centre, otherwise its translation
Position(el) ==
    IF el.tag = "circle" THEN << el.attrs[1], el.attrs[2] >> ELSE el.transform[1][2]

\* everything of an element but its position
Placed(el) ==
    [tag |-> el.tag, styles |-> el.styles, children |-> el.children,
     attrs |-> IF el.tag = "circle" THEN << el.attrs[3] >> ELSE el.attrs,
     transform |-> IF el.tag = "circle" THEN <<>> ELSE Tail(el.transform)]

\* the translation an edge copy is to have on a canvas of width w, height h
Expected(copy, w, h) ==
    CASE copy = "right"  -> << w, N(0) >>
      [] copy = "bottom" -> << N(0), h >>
      [] copy = "corner" -> << w, h >>
      [] copy = "top"    -> << N(0), Neg(h) >>

\* C10: for a valid digest, every edge copy emitted by hexagons, plusSigns,
\* xes, overlappingCircles, overlappingRings, diamonds, triangles, chevrons
\* and sineWaves has one original in its cell, with the same shape, size,
\* style and rotation, and is placed at the original's position translated by
\* the declared width (right copies), the declared height (bottom copies;
\* the top copies of xes are translated by the height upwards) or both
\* (the corner copy).
TilingContinuity ==
    \A k \in Calls1 :
        LET p == history[k].pattern
            els == p.svg.els
        IN  (Done(history[k]) /\ IsValidDigest(p.hash) /\ p.generator \in TilingGenerators)
            => \A c \in 2..Len(els) :
                  els[c].at[2] \in EdgeCopies
                  => /\ Cardinality({ o \in 2..Len(els) :
                                        els[o].at = << els[c].at[1], "cell" >> }) = 1
                     /\ \A o \in 2..Len(els) :
                           els[o].at = << els[c].at[1], "cell" >>
                           => /\ Placed(els[c]) = Placed(els[o])
                              /\ << Sub(Position(els[c])[1], Position(els[o])[1]),
                                    Sub(Position(els[c])[2], Position(els[o])[2]) >>
                                 = Expected(els[c].at[2], p.svg.width, p.svg.height)

TilingContinuityWitness ==
    \E k \in Calls1 :
        LET p == history[k].pattern
        IN  /\ Done(history[k])
            /\ IsValidDigest(p.hash)
            /\ p.generator = Str("x", "es")
            /\ Len(p.svg.els) = 56
            /\ \E c \in 2..56 : p.svg.els[c].at[2] = "top"
            /\ \E c \in 2..56 : p.svg.els[c].at[2] = "corner"
            /\ Positive(p.svg.width)
\* every digest read of the constructor and of the generator, in order
AllReads(p) == p.reads \o p.drawReads

\* the largest value of len hexadecimal digits
MaxHex(len) == IF len = 3 THEN 4095 ELSE 15

Mirrored == { Str("c", "oncentricCircles"), Str("n", "estedSquares") }

MalformedDigestNeverRaises ==
    \A k \in Calls1 :
        LET p == history[k].pattern
        IN  (p.opts.hash # Undef /\ ~IsValidDigest(p.hash))
            => \/ p.thrown = NoError
               \/ /\ Truthy(p.opts.generator)
                  /\ Unknown(p.opts.generator)
                  /\ p.thrown = DoesNotExist(p.opts.generator)

\* the color the pattern was given, as hue, saturation and lightness
BaseHsl(p) == rgb2hsl(hex2rgb(p.opts.baseColor))

\* the three-nibble value at offset 14 remapped from 0..4095 to 0..359
HueOffset(hash) ==
    Q((256 * Nibble(hash, 14) + 16 * Nibble(hash, 15) + Nibble(hash, 16)) * 359, 4095)

\* what generateBackground hands to hsl2rgb
ShiftedOf(p) ==
    Shifted(BaseHsl(p), map(hexValLen(p.hash, 14, 3), 0, 4095, N(0), N(359)),
            hexVal(p.hash, 17))

\* ((baseHue * 360 - hueOffset + 360) mod 360) / 360
NewHue(baseHue, hueOffset) ==
    Div(Mod(Add(Sub(Mul(baseHue, N(360)), hueOffset), N(360)), N(360)), N(360))

NewSaturation(baseSat, satOffset) ==
    IF satOffset % 2 = 0
    THEN Min(N(1), Div(Add(Mul(baseSat, N(100)), N(satOffset)), N(100)))
    ELSE Max(N(0), Div(Sub(Mul(baseSat, N(100)), N(satOffset)), N(100)))

HashDerived(p) == ~Truthy(p.opts.color) /\ IsValidDigest(p.hash)

\* C13: without options.color the hue handed to hsl2rgb is
\* ((baseHue*360 - hueOffset + 360) mod 360)/360 and lies in [0, 1), the
\* saturation is min(1, (baseSat*100 + satOffset)/100) for an even satOffset
\* and max(0, (baseSat*100 - satOffset)/100) for an odd one and lies in
\* [0, 1], the lightness is that of the base color, and the exposed color is
\* the hex form of that value.
HashDerivedBackground ==
    \A k \in Calls1 :
        LET p == history[k].pattern
        IN  HashDerived(p)
            => /\ ShiftedOf(p).h = NewHue(BaseHsl(p).h, HueOffset(p.hash))
               /\ IsRational(ShiftedOf(p).h)
               /\ Leq(N(0), ShiftedOf(p).h) /\ Less(ShiftedOf(p).h, N(1))
               /\ ShiftedOf(p).s = NewSaturation(BaseHsl(p).s, Nibble(p.hash, 17))
               /\ IsRational(ShiftedOf(p).s)
               /\ Leq(N(0), ShiftedOf(p).s) /\ Leq(ShiftedOf(p).s, N(1))
               /\ ShiftedOf(p).l = BaseHsl(p).l
               /\ p.color = rgb2hex(hsl2rgb(ShiftedOf(p)))

HashDerivedBackgroundWitness ==
    \E k \in Calls1 :
        LET p == history[k].pattern
        IN  /\ HashDerived(p)
            /\ Done(history[k])
            /\ p.opts.baseColor = Teal
            /\ Nibble(p.hash, 17) % 2 = 1
            /\ Positive(Sub(BaseHsl(p).s, ShiftedOf(p).s))
            /\ Positive(Sub(HueOffset(p.hash), Mul(BaseHsl(p).h, N(360))))
            /\ Positive(Sub(ShiftedOf(p).h, BaseHsl(p).h))

Tones == { FILL_COLOR_LIGHT, FILL_COLOR_DARK }

\* the primitives the generator appended: all but the background rect
Shapes(p) == SubSeq(p.svg.els, 2, Len(p.svg.els))

Has(st, field) == field \in DOMAIN st

InOpacityRange(x) ==
    IsRational(x) /\ Leq(OPACITY_MIN, x) /\ Leq(x, OPACITY_MAX)

\* fillColor and fillOpacity on the sixteen nibbles
PaletteOfNibbles ==
    /\ \A v \in 0..15 :
          /\ fillColor(N(v)) = IF v % 2 = 0 THEN "#ddd" ELSE "#222"
          /\ fillOpacity(N(v)) = Add(Q(2, 100), Q(v * (15 - 2), 15 * 100))
          /\ InOpacityRange(fillOpacity(N(v)))
    /\ \A v \in 0..14 : Less(fillOpacity(N(v)), fillOpacity(N(v + 1)))
    /\ fillOpacity(N(0)) = Q(2, 100)
    /\ fillOpacity(N(15)) = Q(15, 100)

NibbleOpacities(st) ==
    /\ Has(st, "fillOpacity") => InOpacityRange(st.fillOpacity)
    /\ Has(st, "opacity") => InOpacityRange(st.opacity)

\* C14 as stated: fillColor and fillOpacity are as given on 0..15, and every
\* fill and every stroke a generator emits is one of the two tones and every
\* nibble-derived opacity lies in [0.02, 0.15].
PaletteAsStated ==
    /\ PaletteOfNibbles
    /\ \A k \in Calls1 :
          LET p == history[k].pattern
          IN  (Done(history[k]) /\ IsValidDigest(p.hash))
              => \A i \in 1..Len(Shapes(p)) :
                    /\ Has(Shapes(p)[i].styles, "fill")
                          => Shapes(p)[i].styles.fill \in Tones
                    /\ Has(Shapes(p)[i].styles, "stroke")
                          => Shapes(p)[i].styles.stroke \in Tones
                    /\ NibbleOpacities(Shapes(p)[i].styles)

\* C14: fillColor and fillOpacity are as given on 0..15; every primitive a
\* generator emits takes one of the two tones as its fill or as its stroke,
\* the other of the two being the fixed outline color #000 (stroke) or
\* 'none' (fill) where present; every nibble-derived opacity lies in
\* [0.02, 0.15] and every stroke opacity is the fixed 0.02.
Palette ==
    /\ PaletteOfNibbles
    /\ \A k \in Calls1 :
          LET p == history[k].pattern
          IN  (Done(history[k]) /\ IsValidDigest(p.hash))
              => \A i \in 1..Len(Shapes(p)) :
                    LET st == Shapes(p)[i].styles
                    IN  /\ Has(st, "fill")
                        /\ (Has(st, "fillOpacity") \/ Has(st, "opacity"))
                        /\ st.fill \in Tones \cup { "none" }
                        /\ Has(st, "stroke") => st.stroke \in Tones \cup { STROKE_COLOR }
                        /\ st.fill = "none" => Has(st, "stroke") /\ st.stroke \in Tones
                        /\ (Has(st, "stroke") /\ st.stroke = STROKE_COLOR)
                              => st.fill \in Tones
                        /\ Has(st, "strokeOpacity") => st.strokeOpacity = STROKE_OPACITY
                        /\ NibbleOpacities(st)

PaletteWitness ==
    \E k \in Calls1 :
        LET p == history[k].pattern
        IN  /\ Done(history[k])
            /\ IsValidDigest(p.hash)
            /\ p.generator = Str("h", "exagons")
            /\ \E i, j \in 1..Len(Shapes(p)) :
                  /\ Shapes(p)[i].styles.fill = FILL_COLOR_LIGHT
                  /\ Shapes(p)[i].styles.fillOpacity = OPACITY_MIN
                  /\ Shapes(p)[j].styles.fill = FILL_COLOR_DARK
                  /\ Shapes(p)[j].styles.fillOpacity = OPACITY_MAX
                  /\ Shapes(p)[j].styles.stroke = STROKE_COLOR

GridGenerators ==
    { Str("o", "ctogons"), Str("o", "verlappingCircles"), Str("p", "lusSigns"),
      Str("x", "es"), Str("h", "exagons"), Str("o", "verlappingRings"),
      Str("t", "riangles"), Str("s", "quares"), Str("c", "oncentricCircles"),
      Str("d", "iamonds"), Str("n", "estedSquares"), Str("c", "hevrons") }

IsCell(el) == el.at[2] = "cell"

\* the shape each cell emits for itself, in emission order
Cells(p) == SelectSeq(Shapes(p), IsCell)

\* where a cell's shape is: centre of a circle, corner of a plain rect,
\* otherwise the translation
CellPosition(el) ==
    IF el.tag = "circle" \/ (el.tag = "rect" /\ el.transform = <<>>)
    THEN << el.attrs[1], el.attrs[2] >>
    ELSE el.transform[1][2]

\* the tone and the opacity a style takes from its nibble
Tone(st) == IF st.fill = "none" THEN st.stroke ELSE st.fill

NibbleOpacity(st) == IF Has(st, "fillOpacity") THEN st.fillOpacity ELSE st.opacity

IsHorizontal(el) == el.at[2] = "horizontal"

IsVertical(el) == el.at[2] = "vertical"

IsPlaid(k) ==
    /\ Done(history[k])
    /\ IsValidDigest(history[k].pattern.hash)
    /\ history[k].pattern.generator = Str("p", "laid")

RECURSIVE StripeOffset(_, _)
\* where stripe j of a scan starts: the spacings and stripes before it, each
\* lengthened by 5, and its own spacing
StripeOffset(hash, j) ==
    IF j = 0 THEN Nibble(hash, 0) + 5
    ELSE StripeOffset(hash, j - 1) + Nibble(hash, 2 * j - 1) + 5 + Nibble(hash, 2 * j) + 5

\* C16 as stated: plaid scans the digest twice, horizontal stripes first,
\* and each scan consumes 36 nibble pairs and emits 36 stripes.
PlaidScansAsStated ==
    \A k \in Calls1 :
        LET p == history[k].pattern
        IN  IsPlaid(k)
            => /\ Len(SelectSeq(Shapes(p), IsHorizontal)) = 36
               /\ Len(SelectSeq(Shapes(p), IsVertical)) = 36
               /\ Len(p.drawReads) = 2 * 2 * 36

\* C16: plaid scans the digest twice, horizontal stripes first; each scan
\* starts anew at nibble 0 and offset 0, consumes the 18 pairs (spacing
\* nibble 2j, stripe nibble 2j + 1) of nibbles 0..35 in order and emits one
\* stripe per pair: 18 horizontal stripes, then 18 vertical ones.
PlaidScans ==
    \A k \in Calls1 :
        LET p == history[k].pattern
        IN  IsPlaid(k)
            => /\ Len(Shapes(p)) = 36
               /\ Len(p.drawReads) = 2 * 36
               /\ \A r \in 1..72 : p.drawReads[r] = << (r - 1) % 36, 1 >>
               /\ \A j \in 0..17 :
                     /\ Shapes(p)[j + 1].at = << 2 * j, "horizontal" >>
                     /\ Shapes(p)[j + 1].attrs
                           = << N(0), N(StripeOffset(p.hash, j)), Pct100,
                                N(Nibble(p.hash, 2 * j + 1) + 5) >>
                     /\ Shapes(p)[j + 19].at = << 2 * j, "vertical" >>
                     /\ Shapes(p)[j + 19].attrs
                           = << N(StripeOffset(p.hash, j)), N(0),
                                N(Nibble(p.hash, 2 * j + 1) + 5), Pct100 >>
                     /\ Shapes(p)[j + 1].styles.fill
                           = fillColor(N(Nibble(p.hash, 2 * j + 1)))
                     /\ Shapes(p)[j + 19].styles.opacity
                           = fillOpacity(N(Nibble(p.hash, 2 * j + 1)))

PlaidScansWitness ==
    \E k \in Calls1 :
        LET p == history[k].pattern
        IN  /\ IsPlaid(k)
            /\ Len(SelectSeq(Shapes(p), IsHorizontal)) = 18
            /\ Len(SelectSeq(Shapes(p), IsVertical)) = 18
            /\ Shapes(p)[18].at = << 34, "horizontal" >>
            /\ Shapes(p)[19].at = << 0, "vertical" >>
            /\ Shapes(p)[19].attrs[1] = N(Nibble(p.hash, 0) + 5)

\* the positions in the call sequence of the surface at which op was called
CallsOf(p, op) == { c \in 1..Len(p.svg.calls) : p.svg.calls[c] = op }

\* width and height are declared once each, and positive
DeclaredOnce(p) ==
    /\ Cardinality(CallsOf(p, "setWidth")) = 1
    /\ Cardinality(CallsOf(p, "setHeight")) = 1
    /\ p.svg.width # Unset /\ Positive(p.svg.width)
    /\ p.svg.height # Unset /\ Positive(p.svg.height)

Generated(k) == Done(history[k]) /\ IsValidDigest(history[k].pattern.hash)

\* C17 as stated: each of the sixteen generators declares the width and the
\* height once, both positive for a valid digest, and neither declaration
\* comes after the generator's last shape.
CanvasDeclarationAsStated ==
    \A k \in Calls1 :
        LET p == history[k].pattern
        IN  Generated(k)
            => /\ DeclaredOnce(p)
               /\ \A c \in CallsOf(p, "setWidth") \cup CallsOf(p, "setHeight") :
                     \E a \in CallsOf(p, "add") : a > 1 /\ c < a

\* C17: each of the sixteen generators declares the width and the height
\* once, both positive for a valid digest.  Plaid declares them after its
\* last stripe, as the last two calls on the surface; every other generator
\* declares them before its first shape, right after the background.
CanvasDeclaration ==
    \A k \in Calls1 :
        LET p == history[k].pattern
            n == Len(p.svg.calls)
        IN  Generated(k)
            => /\ DeclaredOnce(p)
               /\ n = Len(p.svg.els) + 2
               /\ p.generator = Str("p", "laid")
                     => SubSeq(p.svg.calls, n - 1, n) = << "setWidth", "setHeight" >>
               /\ p.generator # Str("p", "laid")
                     => SubSeq(p.svg.calls, 1, 4) = << "add", "setWidth", "setHeight", "add" >>

CanvasDeclarationWitness ==
    \E k \in Calls1 :
        LET p == history[k].pattern
        IN  /\ Generated(k)
            /\ p.generator = Str("p", "laid")
            /\ Len(p.svg.calls) = 39
            /\ p.svg.calls[37] = "add"
            /\ p.svg.calls[38] = "setWidth"
            /\ p.svg.calls[39] = "setHeight"
            /\ Positive(p.svg.width)

RECURSIVE Base16(_)
\* the number a sequence of hexadecimal digits writes
Base16(digits) ==
    IF digits = <<>> THEN 0
    ELSE 16 * Base16(SubSeq(digits, 1, Len(digits) - 1)) + digits[Len(digits)]

\* the length hexVal reads when called with len
ReadLen(len) == IF len = 0 THEN 1 ELSE len

\* C18: hexVal(hash, index, len) is the base-16 integer of the len
\* characters from index when they all are hexadecimal digits and lie inside
\* hash, and is NaN in every other case: when one of them is no hexadecimal
\* digit or index + len runs past the end of hash.
HexValFailure ==
    ret.method = "hexVal"
    => LET v == ret.value
           to == v.index + ReadLen(v.len)
       IN  IF to <= Len(v.hash)
              /\ \A c \in v.index + 1..to : HexDigit(v.hash[c])
           THEN v.result = N(Base16(SubSeq(v.hash, v.index + 1, to)))
           ELSE IsNaN(v.result)

RECURSIVE NibbleSum(_, _)
\* the sum of the nibbles 0..n-1 of hash
NibbleSum(hash, n) == IF n = 0 THEN 0 ELSE NibbleSum(hash, n - 1) + Nibble(hash, n - 1)

\* C19: for a valid digest the two scans of plaid read the same nibbles in
\* the same order, the i-th horizontal and the i-th vertical stripe agree in
\* offset, thickness, fill and opacity, and the declared width equals the
\* declared height, both being 180 plus the sum of nibbles 0..35, an
\* integer in 180..720.
PlaidSquare ==
    \A k \in Calls1 :
        LET p == history[k].pattern
            rows == SelectSeq(Shapes(p), IsHorizontal)
            cols == SelectSeq(Shapes(p), IsVertical)
        IN  IsPlaid(k)
            => /\ Len(rows) = Len(cols)
               /\ SubSeq(p.drawReads, 1, Len(p.drawReads) \div 2)
                     = SubSeq(p.drawReads, Len(p.drawReads) \div 2 + 1, Len(p.drawReads))
               /\ \A i \in 1..Len(rows) :
                     /\ rows[i].attrs[2] = cols[i].attrs[1]
                     /\ rows[i].attrs[4] = cols[i].attrs[3]
                     /\ rows[i].styles = cols[i].styles
               /\ p.svg.width = p.svg.height
               /\ p.svg.width = N(180 + NibbleSum(p.hash, 36))
               /\ p.svg.width[1] \in 180..720

PlaidSquareWitness ==
    \E k \in Calls1 :
        LET p == history[k].pattern
        IN  /\ IsPlaid(k)
            /\ NibbleSum(p.hash, 36) > 0
            /\ p.svg.width = N(180 + NibbleSum(p.hash, 36))
            /\ p.svg.height = p.svg.width
            /\ Shapes(p)[5].attrs[2] = Shapes(p)[23].attrs[1]
            /\ Shapes(p)[5].attrs[4] # Shapes(p)[6].attrs[4]

\* the number of primitives each generator is to append
EmissionsOf(generator) ==
    CASE generator \in { Str("o", "ctogons"), Str("s", "quares"), Str("p", "laid") } -> 36
      [] generator \in { Str("t", "riangles"), Str("c", "hevrons") } -> 42
      [] generator \in { Str("h", "exagons"), Str("p", "lusSigns"),
                         Str("o", "verlappingCircles"), Str("o", "verlappingRings"),
                         Str("d", "iamonds") } -> 49
      [] generator = Str("x", "es") -> 55
      [] generator \in { Str("s", "ineWaves"), Str("c", "oncentricCircles"),
                         Str("n", "estedSquares") } -> 72
      [] generator = Str("m", "osaicSquares") -> 64
      [] generator = Str("t", "essellation") -> 26

IsOuter(el) == el.at[2] = "outer"

IsInner(el) == el.at[2] = "inner"

\* C20: for a valid digest the number of primitives appended after the
\* background depends on the generator only: 36 for octogons, squares and
\* plaid, 42 for triangles and chevrons, 49 for hexagons, plusSigns,
\* overlappingCircles, overlappingRings and diamonds, 55 for xes, 72 for
\* sineWaves, concentricCircles and nestedSquares, 64 for mosaicSquares
\* (four triangles for each of 16 tiles, outer tiles where x + y is even
\* and inner tiles where it is odd) and 26 for tessellation (each of the
\* positions 0..19 handled by one case).
EmissionCount ==
    \A k \in Calls1 :
        LET p == history[k].pattern
        IN  Generated(k)
            => /\ Len(Shapes(p)) = EmissionsOf(p.generator)
               /\ p.generator = Str("m", "osaicSquares")
                     => \A i \in 0..15 :
                           /\ \A t \in 1..4 : Shapes(p)[4 * i + t].at[1] = i
                           /\ ((i % 4) + (i \div 4)) % 2 = 0
                                 => \A t \in 1..4 : IsOuter(Shapes(p)[4 * i + t])
                           /\ ((i % 4) + (i \div 4)) % 2 = 1
                                 => \A t \in 1..4 : IsInner(Shapes(p)[4 * i + t])
               /\ p.generator = Str("t", "essellation")
                     => \A i \in 0..19 : \E e \in 1..26 : Shapes(p)[e].at[1] = i

EmissionCountWitness ==
    \E k \in Calls1 :
        LET p == history[k].pattern
        IN  /\ Generated(k)
            /\ p.generator = Str("t", "essellation")
            /\ Len(Shapes(p)) = 26
            /\ Shapes(p)[26].at[1] = 19
            /\ Shapes(p)[4].at[1] = 0
            /\ Shapes(p)[5].at[1] = 1

====
